---- MODULE Spec2Model ----
(***************************************************************************)
(* ShivAI Atlas command orchestration pipeline: the Permission Gate        *)
(* (atlas_permissions.py), the Executor (atlas_executor_agent.py) and the  *)
(* HTTP submission interface (atlas_main_api.py).                          *)
(*                                                                         *)
(* Storage is taken to be reliable: the open()/write() calls of            *)
(* _save_pending_requests and _log_audit and the INSERT of log_usage       *)
(* succeed.  Timestamps (datetime.now()) are not part of the state: no     *)
(* operation of the pipeline reads them back.                              *)
(***************************************************************************)
EXTENDS Integers, Sequences, FiniteSets, TLC

VARIABLES
    can,               \* config.permissions.can_* flags, by PermissionType
    ask_every_time,    \* config.permissions.ask_every_time_* flags
    pending_requests,  \* PermissionManager.pending_requests (in memory)
    pending_file,      \* contents of PENDING_REQUESTS_FILE
    audit_log,         \* contents of AUDIT_LOG_FILE, one entry per line
    last,              \* the last public call: operation and what it returned
    tool_map,          \* ExecutorAgent.tool_map: tool name -> registered object or None
    ex,                \* the execute_plan call in progress (locals of the loop)
    usage_stats,       \* rows of the usage_stats table (memory_agent.log_usage)
    listed,              \* what a client of GET /api/permissions/pending last got
    loop,              \* the server's event loop: calls received, handlers in progress
    workflows,         \* memory_agent's workflows table: the stored steps, by name
    callers            \* the execute_plan calls waiting for a nested call, outermost first

vars == <<can, ask_every_time, pending_requests, pending_file, audit_log,
          last, tool_map, ex, usage_stats, listed, loop,
                    workflows, callers>>

gate_vars == <<can, ask_every_time, pending_requests, pending_file, audit_log>>

(***************************************************************************)
(* Bounds                                                                  *)
(***************************************************************************)
MaxPending == 2
MaxAudit == 2

\* Python's None where a string is expected (the reason of a granted check)
None == "None"

\* an optional argument: <<>> when omitted (None), <<v>> when given
Omitted == <<>>

Given(v) == <<v>>

(***************************************************************************)
(* Enumerations.  A member is written by its name; its .value is the       *)
(* lower-case string that reaches the files.  Three of the seven           *)
(* PermissionType members are carried: two that have an "ask every time"   *)
(* flag and one (NETWORK) that has none.                                   *)
(***************************************************************************)
PermissionType == {"FILES", "KEYBOARD_MOUSE", "NETWORK"}

PermissionTypeValue(t) ==
    CASE t = "FILES" -> "files"
      [] t = "KEYBOARD_MOUSE" -> "keyboard_mouse"
      [] t = "NETWORK" -> "network"

RiskLevel == {"LOW", "MEDIUM", "HIGH", "CRITICAL"}

RiskLevelValue(r) ==
    CASE r = "LOW" -> "low"
      [] r = "MEDIUM" -> "medium"
      [] r = "HIGH" -> "high"
      [] r = "CRITICAL" -> "critical"

\* keys of ask_every_time_map: the members that have an "ask every time" flag
AskTypes == {"FILES", "KEYBOARD_MOUSE"}

(***************************************************************************)
(* Dictionaries are sequences of <<key, value>> pairs in insertion order.  *)
(***************************************************************************)
EmptyDict == <<>>

HasKey(d, k) == \E i \in 1..Len(d) : d[i][1] = k

DictGet(d, k, default) ==
    IF HasKey(d, k) THEN d[CHOOSE i \in 1..Len(d) : d[i][1] = k][2] ELSE default

(***************************************************************************)
(* Permission Gate                                                         *)
(***************************************************************************)
\* permission_map.get(permission_type, False)
permission_map(t) == IF t \in DOMAIN can THEN can[t] ELSE FALSE

\* the map with its FILES entry alone: no other type asks
ask_every_time_map_files_only(t) == t = "FILES" /\ ask_every_time[t]

\* the lookup with the default inverted: .get(permission_type, True)
ask_every_time_map_default_true(t) ==
    IF t \in DOMAIN ask_every_time THEN ask_every_time[t] ELSE TRUE

\* the flag taken as answered once a request of the category was approved
ask_every_time_map_until_approved(t) ==
    /\ t \in DOMAIN ask_every_time
    /\ ask_every_time[t]
    /\ ~\E i \in 1..Len(audit_log) :
           /\ audit_log[i].status = "approved"
           /\ audit_log[i].permission_type = PermissionTypeValue(t)

\* ask_every_time_map.get(permission_type, False)
ask_every_time_map(t) ==
    IF t \in DOMAIN ask_every_time THEN ask_every_time[t] ELSE FALSE

_get_action_description(action, params) ==
    CASE action = "delete_file" -> "Delete file: " \o DictGet(params, "path", "unknown")
      [] action = "create_file" -> "Create file: " \o DictGet(params, "path", "unknown")
      [] action = "take_screenshot" -> "Capture screen screenshot"
      [] action = "network_request" ->
             "Make network request to " \o DictGet(params, "url", "unknown")
      [] OTHER -> "Action: " \o action

PermissionRequest(t, action, risk, params) ==
    [permission_type |-> t, action |-> action,
     description |-> _get_action_description(action, params),
     risk_level |-> risk, params |-> params]

\* PermissionRequest.to_dict
to_dict(req) ==
    [permission_type |-> PermissionTypeValue(req.permission_type),
     action |-> req.action, description |-> req.description,
     risk_level |-> RiskLevelValue(req.risk_level), params |-> req.params]

\* what _save_pending_requests writes for the queue q
_save_pending_requests(q) == [i \in 1..Len(q) |-> to_dict(q[i])]

AuditLogEntry(action, permission_type, risk_level, status, details, agent) ==
    [action |-> action, permission_type |-> permission_type,
     risk_level |-> risk_level, status |-> status, details |-> details,
     agent |-> agent]

\* the audit file had it been opened with mode 'w': the new line replaces it
_log_audit_mode_w(log, action, permission_type, risk_level, status, details, agent) ==
    <<AuditLogEntry(action, permission_type, risk_level, status, details, agent)>>

\* the audit file after _log_audit appended one line
_log_audit(log, action, permission_type, risk_level, status, details, agent) ==
    Append(log, AuditLogEntry(action, permission_type, risk_level, status,
                              details, agent))

DisabledReason(t) ==
    "Permission " \o PermissionTypeValue(t) \o " is disabled. Enable it in Settings."

ConfirmReason == "User confirmation required. Check pending requests."

\* check_permission with a "granted" audit line written in the pending branch
check_permission_audits_pending(t, action, risk, params0) ==
    LET params == IF params0 = Omitted THEN EmptyDict ELSE params0[1] IN
    IF ~permission_map(t) THEN
        [granted |-> FALSE, reason |-> DisabledReason(t),
         pending |-> pending_requests, file |-> pending_file,
         audit |-> _log_audit(audit_log, action, PermissionTypeValue(t),
                              RiskLevelValue(risk), "denied",
                              <<<<"reason", DisabledReason(t)>>>>, "system")]
    ELSE IF ask_every_time_map(t) THEN
        [granted |-> FALSE, reason |-> ConfirmReason,
         pending |-> Append(pending_requests, PermissionRequest(t, action, risk, params)),
         file |-> _save_pending_requests(
                      Append(pending_requests, PermissionRequest(t, action, risk, params))),
         audit |-> _log_audit(audit_log, action, PermissionTypeValue(t),
                              RiskLevelValue(risk), "granted", params, "system")]
    ELSE
        [granted |-> TRUE, reason |-> None,
         pending |-> pending_requests, file |-> pending_file,
         audit |-> _log_audit(audit_log, action, PermissionTypeValue(t),
                              RiskLevelValue(risk), "granted", params, "system")]

\* check_permission with the "ask every time" test ahead of the enabled test
check_permission_ask_first(t, action, risk, params0) ==
    LET params == IF params0 = Omitted THEN EmptyDict ELSE params0[1] IN
    IF ask_every_time_map(t) THEN
        [granted |-> FALSE, reason |-> ConfirmReason,
         pending |-> Append(pending_requests, PermissionRequest(t, action, risk, params)),
         file |-> _save_pending_requests(
                      Append(pending_requests, PermissionRequest(t, action, risk, params))),
         audit |-> audit_log]
    ELSE IF ~permission_map(t) THEN
        [granted |-> FALSE, reason |-> DisabledReason(t),
         pending |-> pending_requests, file |-> pending_file,
         audit |-> _log_audit(audit_log, action, PermissionTypeValue(t),
                              RiskLevelValue(risk), "denied",
                              <<<<"reason", DisabledReason(t)>>>>, "system")]
    ELSE
        [granted |-> TRUE, reason |-> None,
         pending |-> pending_requests, file |-> pending_file,
         audit |-> _log_audit(audit_log, action, PermissionTypeValue(t),
                              RiskLevelValue(risk), "granted", params, "system")]

\* the gate's mutable state as one value: the queue in memory, the queue on
\* disk and the audit file
Gate == [pending |-> pending_requests, file |-> pending_file, audit |-> audit_log]

\* check_permission with the new request put at the head of the queue:
\* pending_requests.insert(0, request)
check_permission_on_insert_first(g, t, action, risk, params0) ==
    LET params == IF params0 = Omitted THEN EmptyDict ELSE params0[1] IN
    IF ~permission_map(t) THEN
        [granted |-> FALSE, reason |-> DisabledReason(t),
         pending |-> g.pending, file |-> g.file,
         audit |-> _log_audit(g.audit, action, PermissionTypeValue(t),
                              RiskLevelValue(risk), "denied",
                              <<<<"reason", DisabledReason(t)>>>>, "system")]
    ELSE IF ask_every_time_map(t) THEN
        [granted |-> FALSE, reason |-> ConfirmReason,
         pending |-> <<PermissionRequest(t, action, risk, params)>> \o g.pending,
         file |-> _save_pending_requests(
                      <<PermissionRequest(t, action, risk, params)>> \o g.pending),
         audit |-> g.audit]
    ELSE
        [granted |-> TRUE, reason |-> None,
         pending |-> g.pending, file |-> g.file,
         audit |-> _log_audit(g.audit, action, PermissionTypeValue(t),
                              RiskLevelValue(risk), "granted", params, "system")]

\* check_permission run on the gate state g: its return value and the gate
\* state it leaves
check_permission_on(g, t, action, risk, params0) ==
    LET params == IF params0 = Omitted THEN EmptyDict ELSE params0[1] IN
    IF ~permission_map(t) THEN
        [granted |-> FALSE, reason |-> DisabledReason(t),
         pending |-> g.pending, file |-> g.file,
         audit |-> _log_audit(g.audit, action, PermissionTypeValue(t),
                              RiskLevelValue(risk), "denied",
                              <<<<"reason", DisabledReason(t)>>>>, "system")]
    ELSE IF ask_every_time_map(t) THEN
        [granted |-> FALSE, reason |-> ConfirmReason,
         pending |-> Append(g.pending, PermissionRequest(t, action, risk, params)),
         file |-> _save_pending_requests(
                      Append(g.pending, PermissionRequest(t, action, risk, params))),
         audit |-> g.audit]
    ELSE
        [granted |-> TRUE, reason |-> None,
         pending |-> g.pending, file |-> g.file,
         audit |-> _log_audit(g.audit, action, PermissionTypeValue(t),
                              RiskLevelValue(risk), "granted", params, "system")]

\* check_permission on the current state
check_permission(t, action, risk, params0) ==
    check_permission_on(Gate, t, action, risk, params0)

\* list.pop() without the index: the list without its last element
PopLast(q, i) == [j \in 1..(Len(q) - 1) |-> q[j]]

\* list.pop(i) on a 0-based index: the list without that element
Pop(q, i) == [j \in 1..(Len(q) - 1) |-> IF j <= i THEN q[j] ELSE q[j + 1]]

\* the range test without its lower bound: a negative index counts from the end
resolve_request_negative_index(request_index, status) ==
    IF request_index < Len(pending_requests) /\ Len(pending_requests) + request_index >= 0 THEN
        LET at == IF request_index < 0 THEN Len(pending_requests) + request_index
                  ELSE request_index
            request == pending_requests[at + 1] IN
        [ret |-> TRUE,
         pending |-> Pop(pending_requests, at),
         file |-> _save_pending_requests(Pop(pending_requests, at)),
         audit |-> _log_audit(audit_log, request.action,
                              PermissionTypeValue(request.permission_type),
                              RiskLevelValue(request.risk_level), status,
                              request.params, "user")]
    ELSE
        [ret |-> FALSE, pending |-> pending_requests, file |-> pending_file,
         audit |-> audit_log]

\* approve_request / deny_request (they share their body up to the audit
\* status) run on the gate state g
resolve_request_on(g, request_index, status) ==
    IF 0 <= request_index /\ request_index < Len(g.pending) THEN
        LET request == g.pending[request_index + 1] IN
        [ret |-> TRUE,
         pending |-> Pop(g.pending, request_index),
         file |-> _save_pending_requests(Pop(g.pending, request_index)),
         audit |-> _log_audit(g.audit, request.action,
                              PermissionTypeValue(request.permission_type),
                              RiskLevelValue(request.risk_level), status,
                              request.params, "user")]
    ELSE
        [ret |-> FALSE, pending |-> g.pending, file |-> g.file, audit |-> g.audit]

resolve_request(request_index, status) ==
    resolve_request_on(Gate, request_index, status)

approve_request(request_index) == resolve_request(request_index, "approved")

deny_request(request_index) == resolve_request(request_index, "denied_by_user")

(***************************************************************************)
(* Executor: tools and their attributes                                    *)
(***************************************************************************)
MaxPlanLen == 2

\* ExecutorAgent.__init__: the four automation singletons are registered,
\* workflow_engine and app_builder map to None until their setter is called
InitialToolMap ==
    [t \in {"pc_actions", "file_actions", "android_bridge", "enterchat_connector",
            "workflow_engine", "app_builder"} |->
        IF t \in {"workflow_engine", "app_builder"} THEN None ELSE t]

\* tool_map.get(step.tool)
tool_map_get(name) == IF name \in DOMAIN tool_map THEN tool_map[name] ELSE None

\* The attributes of the tool objects that plans name (each gated method
\* passes its own name as the action of the permission check).  kind: "gated" (the
\* method starts with _check_permission), "plain" (a method returning a
\* result dict with no permission check), "helper" (a method returning a
\* (bool, str) tuple), "attribute" (a data attribute, not callable).
\* required / accepted: the keyword parameters of the method.
\* checked: the keys copied into the params of the permission check.
Attributes ==
    [file_actions |->
        [delete_file |-> [kind |-> "gated", ptype |-> "FILES", risk |-> "HIGH",
                          required |-> {"path"}, accepted |-> {"path"},
                          checked |-> <<"path">>],
         create_file |-> [kind |-> "gated", ptype |-> "FILES", risk |-> "LOW",
                          required |-> {"path"}, accepted |-> {"path", "content"},
                          checked |-> <<"path">>]],
     pc_actions |->
        [shutdown_system |-> [kind |-> "gated", ptype |-> "KEYBOARD_MOUSE",
                              risk |-> "CRITICAL", required |-> {},
                              accepted |-> {"mode", "delay"},
                              checked |-> <<"mode">>],
         get_system_info |-> [kind |-> "plain", ptype |-> "", risk |-> "",
                              required |-> {}, accepted |-> {},
                              checked |-> <<>>]],
     android_bridge |->
        [_run_adb_command |-> [kind |-> "helper", ptype |-> "", risk |-> "",
                               required |-> {"command"},
                               accepted |-> {"command", "timeout"},
                               checked |-> <<>>],
         connected |-> [kind |-> "attribute", ptype |-> "", risk |-> "",
                        required |-> {}, accepted |-> {}, checked |-> <<>>]],
     enterchat_connector |->
        [connected |-> [kind |-> "attribute", ptype |-> "", risk |-> "",
                        required |-> {}, accepted |-> {}, checked |-> <<>>]],
     app_builder |->
        [create_app |-> [kind |-> "plain", ptype |-> "", risk |-> "",
                         required |-> {"app_type"},
                         accepted |-> {"app_type", "app_name", "custom_params"},
                         checked |-> <<>>]]]

\* hasattr(tool, action)
hasattr(tool, action) == tool \in DOMAIN Attributes /\ action \in DOMAIN Attributes[tool]

\* getattr(tool, action)
getattr(tool, action) == Attributes[tool][action]

Keys(d) == {d[i][1] : i \in 1..Len(d)}

\* action_method(**step.params) binds: no required parameter is missing and
\* no unexpected keyword is passed (otherwise the call raises TypeError)
Binds(method, params) ==
    /\ method.kind # "attribute"
    /\ method.required \subseteq Keys(params)
    /\ Keys(params) \subseteq method.accepted

\* the params dict a gated method hands to _check_permission; shutdown_system
\* passes its mode, whose default is "shutdown"
CheckedParams(method, params) ==
    [k \in 1..Len(method.checked) |->
        <<method.checked[k], DictGet(params, method.checked[k], "shutdown")>>]

\* Tool results.  A result dict keeps its "success" entry as an optional
\* value; a helper's tuple is not a dict.
ResultDict(success, message) ==
    [type |-> "dict", success |-> <<success>>, message |-> message]

ResultTuple == [type |-> "tuple", success |-> <<>>, message |-> ""]

\* result.get("success", False) on a dict
get_success(result) ==
    IF result.success = <<>> THEN FALSE ELSE result.success[1]

\* _is_critical_step with the list cut down to the system actions
_is_critical_step_system_only(step) ==
    step.action \in {"shutdown_system", "reboot"}

\* _is_critical_step answering True for every step: the first failed step
\* ends the loop
_is_critical_step_always(step) ==
    step.action = step.action

_is_critical_step(step) ==
    step.action \in {"delete_file", "delete_folder", "shutdown_system", "reboot"}

(***************************************************************************)
(* Executor: plans                                                         *)
(***************************************************************************)
PlanStep(tool, action, params, description) ==
    [tool |-> tool, action |-> action, params |-> params,
     description |-> description]

\* the steps plans are made of: the planner's templates for delete_file,
\* create_file, create_app and the "unknown" fallback, and stored-workflow
\* steps naming a helper method, omitting a required parameter and naming
\* an action the tool does not have
StepPool ==
    { PlanStep("file_actions", "delete_file", <<<<"path", "test.txt">>>>,
               "Delete file: test.txt"),
      PlanStep("file_actions", "create_file",
               <<<<"path", "new_file.txt">>, <<"content", "">>>>,
               "Create file: new_file.txt"),
      PlanStep("app_builder", "create_app", <<<<"app_type", "todo">>>>,
               "Create todo application"),
      PlanStep("unknown", "unknown", <<<<"command", "hello">>>>,
               "Unknown command: hello"),
      PlanStep("android_bridge", "_run_adb_command", <<<<"command", "devices">>>>,
               "List devices"),
      PlanStep("file_actions", "delete_file", EmptyDict, "Delete file"),
      PlanStep("pc_actions", "delete_folder", <<<<"path", "tmp">>>>,
               "Delete folder: tmp") }

SeqsUpTo(S, n) == UNION {[1..k -> S] : k \in 0..n}

ExecutionPlan(intent, steps, confidence, requires_confirmation) ==
    [intent |-> intent, steps |-> steps, confidence |-> confidence,
     requires_confirmation |-> requires_confirmation]

\* the plans handed to execute_plan (confidence in hundredths)
Plans == {ExecutionPlan("workflow_w", steps, 100, FALSE) :
              steps \in SeqsUpTo(StepPool, MaxPlanLen)}

\* the plans handed to dry_run
DryRunPool ==
    { PlanStep("file_actions", "delete_file", <<<<"path", "test.txt">>>>,
               "Delete file: test.txt"),
      PlanStep("unknown", "unknown", <<<<"command", "hello">>>>,
               "Unknown command: hello") }

DryRunPlans ==
    {ExecutionPlan("delete_file", steps, 90, rc) :
         steps \in SeqsUpTo(DryRunPool, MaxPlanLen), rc \in BOOLEAN}

(***************************************************************************)
(* Strings.  A command is a Python str over ASCII; positions are 1-based.  *)
(***************************************************************************)
Char(s, i) == SubSeq(s, i, i)

UpperLetters == "ABCDEFGHIJKLMNOPQRSTUVWXYZ"

LowerLetters == "abcdefghijklmnopqrstuvwxyz"

DigitChars == "0123456789"

\* the position of the character c in the string alphabet, 0 if absent
IndexIn(c, alphabet) ==
    IF \E i \in 1..Len(alphabet) : Char(alphabet, i) = c
    THEN CHOOSE i \in 1..Len(alphabet) : Char(alphabet, i) = c
    ELSE 0

IsLetter(c) == IndexIn(c, UpperLetters) > 0 \/ IndexIn(c, LowerLetters) > 0

IsDigit(c) == IndexIn(c, DigitChars) > 0

\* \s of the re module
IsSpace(c) == c \in {" ", "\t", "\n", "\r", "\f"}

IsQuote(c) == c \in {"\"", "'"}

LowerChar(c) ==
    IF IndexIn(c, UpperLetters) > 0 THEN Char(LowerLetters, IndexIn(c, UpperLetters))
    ELSE c

RECURSIVE lower(_)
\* str.lower(): every character lowered, the string taken by halves
lower(s) ==
    IF Len(s) = 0 THEN ""
    ELSE IF Len(s) = 1 THEN LowerChar(Char(s, 1))
    ELSE lower(SubSeq(s, 1, Len(s) \div 2))
             \o lower(SubSeq(s, Len(s) \div 2 + 1, Len(s)))

\* the positions at which the literal k occurs in s
Occurrences(k, s) ==
    {i \in 1..(Len(s) - Len(k) + 1) : SubSeq(s, i, i + Len(k) - 1) = k}

\* k in s
Contains(s, k) == Occurrences(k, s) # {}

RECURSIVE lstrip(_)
lstrip(s) ==
    IF Len(s) > 0 /\ IsSpace(Char(s, 1)) THEN lstrip(SubSeq(s, 2, Len(s))) ELSE s

RECURSIVE rstrip(_)
rstrip(s) ==
    IF Len(s) > 0 /\ IsSpace(Char(s, Len(s))) THEN rstrip(SubSeq(s, 1, Len(s) - 1))
    ELSE s

\* str.strip()
strip(s) == lstrip(rstrip(s))

\* the largest n such that the n characters of s from position i on satisfy
\* Class (a greedy character-class repetition)
Run(s, i, Class(_)) ==
    LET ok(n) == \A k \in i..(i + n - 1) : Class(Char(s, k))
        ns == {n \in 0..(Len(s) - i + 1) : ok(n)}
    IN CHOOSE n \in ns : \A m \in ns : m <= n

(***************************************************************************)
(* Planner: parse_intent.  The pattern table in dict and list order; every *)
(* pattern has the shape (a1|a2|..).*(b1|b2|..).  The Devanagari           *)
(* alternatives cannot occur in an ASCII command and are left out.         *)
(* Confidences are in hundredths.                                          *)
(***************************************************************************)
Pattern(intent, first, second, confidence) ==
    [intent |-> intent, first |-> first, second |-> second,
     confidence |-> confidence]

\* _load_intent_patterns
intent_patterns ==
    << Pattern("create_file", {"file"}, {"banao", "create"}, 90),
       Pattern("create_file", {"naya"}, {"file"}, 85),
       Pattern("delete_file", {"file"}, {"delete"}, 90),
       Pattern("delete_file", {"remove"}, {"file"}, 85),
       Pattern("organize_desktop", {"desktop"}, {"organize", "clean"}, 90),
       Pattern("organize_desktop", {"desktop"}, {"arrange"}, 85),
       Pattern("open_app", {"open"}, {"app", "application"}, 90),
       Pattern("open_app", {"start", "run"}, {"notepad", "calculator", "chrome"}, 85),
       Pattern("close_app", {"close", "band"}, {"app", "application"}, 90),
       Pattern("screenshot", {"screenshot"}, {"le", "take"}, 90),
       Pattern("screenshot", {"screen"}, {"capture"}, 85),
       Pattern("volume_control", {"volume"}, {"up", "down", "mute"}, 90),
       Pattern("shutdown", {"shutdown", "band karo"}, {"computer", "pc"}, 95),
       Pattern("shutdown", {"computer", "pc", "system"}, {"off"}, 90),
       Pattern("unlock_phone", {"phone"}, {"unlock"}, 90),
       Pattern("unlock_phone", {"unlock"}, {"phone"}, 90),
       Pattern("open_android_app", {"phone"}, {"whatsapp", "telegram", "youtube"}, 90),
       Pattern("open_android_app", {"android"}, {"open"}, 85),
       Pattern("android_screenshot", {"phone"}, {"screenshot"}, 90),
       Pattern("send_whatsapp", {"whatsapp"}, {"send", "message"}, 90),
       Pattern("send_whatsapp", {"message"}, {"whatsapp"}, 85),
       Pattern("send_telegram", {"telegram"}, {"send", "message"}, 90),
       Pattern("check_messages", {"check"}, {"messages"}, 85),
       Pattern("check_messages", {"unread"}, {"messages"}, 85),
       Pattern("morning_routine", {"morning"}, {"routine"}, 90),
       Pattern("backup_workflow", {"backup"}, {"create", "take"}, 90),
       Pattern("create_app", {"app"}, {"banao", "create"}, 85),
       Pattern("create_app", {"todo", "calculator", "notes"}, {"app"}, 90),
       Pattern("system_info", {"system"}, {"info"}, 90),
       Pattern("system_info", {"computer"}, {"status"}, 85) >>

\* re.search(pattern, s): an alternative of the first group, then any
\* characters (none of them a newline), then an alternative of the second
re_search(pattern, s) ==
    \E a \in pattern.first : \E i \in Occurrences(a, s) :
        \E b \in pattern.second : \E j \in Occurrences(b, s) :
            /\ j >= i + Len(a)
            /\ \A k \in (i + Len(a))..(j - 1) : Char(s, k) # "\n"

apps == <<"notepad", "calculator", "chrome", "firefox", "word", "excel",
          "whatsapp", "telegram", "youtube", "camera">>

\* entities[key] = value: an existing key keeps its place
DictSet(d, key, value) ==
    IF HasKey(d, key)
    THEN [i \in 1..Len(d) |-> IF d[i][1] = key THEN <<key, value>> ELSE d[i]]
    ELSE Append(d, <<key, value>>)

\* the first element of a non-empty set of positions
First(positions) == CHOOSE x \in positions : \A y \in positions : x <= y

path_starts(command) ==
    {i \in 1..Len(command) :
        /\ IsQuote(Char(command, i))
        /\ i + 1 <= Len(command)
        /\ ~IsQuote(Char(command, i + 1))
        /\ \E j \in (i + 2)..Len(command) : IsQuote(Char(command, j))}

path_group(command, i) ==
    SubSeq(command, i + 1, i + Run(command, i + 1, LAMBDA c : ~IsQuote(c)))

path_first(command, starts) ==
    IF starts = {} THEN Omitted ELSE Given(path_group(command, First(starts)))

\* re.search(r'["\']([^"\']+)["\']', command): the captured group, as an
\* optional value
path_match(command) == path_first(command, path_starts(command))

IsNameChar(c) == IsLetter(c) \/ IsSpace(c)

\* the name pattern tried at a marker whose two letters end before position
\* a: spaces is the run of whitespace at a, letters the run of letters and
\* whitespace after it
name_at(command, a, spaces, letters) ==
    [matches |-> spaces >= 1 /\ (letters >= 1 \/ spaces >= 2),
     group |-> IF letters >= 1
               THEN SubSeq(command, a + spaces, a + spaces + letters - 1)
               ELSE Char(command, a + spaces - 1)]

name_from(command, p) ==
    name_at(command, p + 2, Run(command, p + 2, IsSpace),
            Run(command, p + 2 + Run(command, p + 2, IsSpace), IsNameChar))

name_first(command, starts) ==
    IF starts = {} THEN Omitted ELSE Given(name_from(command, First(starts)).group)

name_starts(command, low) ==
    {p \in Occurrences("to", low) \cup Occurrences("ko", low) :
        name_from(command, p).matches}

\* re.search(r'(?:to|ko)\s+([A-Za-z\s]+)', command, re.IGNORECASE): at a
\* marker followed by whitespace the group is the run of letters and
\* whitespace after it; when no letter follows, \s+ gives back its last
\* whitespace character to the group
name_match(command) == name_first(command, name_starts(command, lower(command)))

\* the message pattern tried at position q, after the marker and its run of
\* whitespace (spaces): plain, the group starts at q; quoted, a quote at q
\* is skipped; otherwise \s+ gives back its last whitespace character
msg_at(command, q, spaces) ==
    [matches |-> /\ spaces >= 1
                 /\ \/ q <= Len(command) /\ ~IsQuote(Char(command, q))
                    \/ /\ q + 1 <= Len(command)
                       /\ IsQuote(Char(command, q))
                       /\ ~IsQuote(Char(command, q + 1))
                    \/ spaces >= 2,
     from |-> IF q <= Len(command) /\ ~IsQuote(Char(command, q)) THEN q
              ELSE IF /\ q + 1 <= Len(command)
                      /\ IsQuote(Char(command, q))
                      /\ ~IsQuote(Char(command, q + 1))
                   THEN q + 1
                   ELSE q - 1]

msg_from(command, p) ==
    msg_at(command, p + 4 + Run(command, p + 4, IsSpace), Run(command, p + 4, IsSpace))

msg_group(command, from) ==
    SubSeq(command, from, from + Run(command, from, LAMBDA c : ~IsQuote(c)) - 1)

msg_first(command, starts) ==
    IF starts = {} THEN Omitted
    ELSE Given(msg_group(command, msg_from(command, First(starts)).from))

msg_starts(command, low) ==
    {p \in Occurrences("bolo", low) \cup Occurrences("send", low) :
        msg_from(command, p).matches}

\* re.search(r'(?:bolo|send)\s+["\']?([^"\']+)["\']?', command,
\* re.IGNORECASE): after the marker and its whitespace an optional quote is
\* skipped and the group runs up to the next quote or the end; when nothing
\* can follow, \s+ gives back its last whitespace character to the group
msg_match(command) == msg_first(command, msg_starts(command, lower(command)))

\* the positions at which a maximal run of digits starts
digit_starts(command) ==
    {i \in 1..Len(command) :
        /\ IsDigit(Char(command, i))
        /\ (i = 1 \/ ~IsDigit(Char(command, i - 1)))}

\* the n-th smallest element of a set of positions
Nth(positions, n) ==
    CHOOSE x \in positions : Cardinality({y \in positions : y <= x}) = n

digit_runs(command, starts) ==
    [n \in 1..Cardinality(starts) |->
        SubSeq(command, Nth(starts, n),
               Nth(starts, n) + Run(command, Nth(starts, n), IsDigit) - 1)]

\* re.findall(r'\d+', command): the maximal runs of digits, left to right
findall_digits(command) == digit_runs(command, digit_starts(command))

\* the indices of the apps found in the lowered command
apps_in(command_lower) == {k \in 1..Len(apps) : Contains(command_lower, apps[k])}

\* the steps of _extract_entities, each on the entities so far: the app
\* names (the last one found stays), the path, the contact name, the
\* message text, the numbers
with_app_name(found) ==
    IF found = {} THEN EmptyDict
    ELSE DictSet(EmptyDict, "app_name",
                 apps[CHOOSE k \in found : \A m \in found : m <= k])

with_path(entities, match) ==
    IF match = Omitted THEN entities ELSE DictSet(entities, "path", match[1])

with_contact_name(entities, intent, match) ==
    IF (Contains(intent, "whatsapp") \/ Contains(intent, "telegram"))
           /\ match # Omitted
    THEN DictSet(entities, "contact_name", strip(match[1]))
    ELSE entities

with_message_text(entities, intent, match) ==
    IF (Contains(intent, "send") \/ Contains(intent, "message")) /\ match # Omitted
    THEN DictSet(entities, "message_text", strip(match[1]))
    ELSE entities

with_numbers(entities, numbers) ==
    IF numbers = <<>> THEN entities ELSE DictSet(entities, "numbers", numbers)

_extract_entities(command, intent) ==
    with_numbers(
        with_message_text(
            with_contact_name(
                with_path(with_app_name(apps_in(lower(command))), path_match(command)),
                intent, name_match(command)),
            intent, msg_match(command)),
        findall_digits(command))

\* the patterns of the table, by index, that re.search finds in the command
matching(command_lower) ==
    {k \in 1..Len(intent_patterns) : re_search(intent_patterns[k], command_lower)}

\* the comparison of the loop with >= in place of >
replaces_on_ties(found, k) ==
    \A m \in found :
        m < k => intent_patterns[m].confidence <= intent_patterns[k].confidence

\* the loop of parse_intent: best_intent, best_confidence and entities are
\* replaced at pattern k when the pattern matches and its confidence is above
\* best_confidence, the highest confidence of the patterns that matched
\* before it (0.0 when none did)
replaces(found, k) ==
    \A m \in found :
        m < k => intent_patterns[m].confidence < intent_patterns[k].confidence

\* what the loop leaves in best_intent, best_confidence and entities: the
\* initial values when no pattern replaced them, else what the last
\* replacing pattern put there
best_match(command, replacing, unknown) ==
    IF replacing = {} THEN unknown
    ELSE [intent |-> intent_patterns[Nth(replacing, Cardinality(replacing))].intent,
          confidence |->
              intent_patterns[Nth(replacing, Cardinality(replacing))].confidence,
          entities |->
              _extract_entities(command,
                  intent_patterns[Nth(replacing, Cardinality(replacing))].intent)]

parse_intent_loop(command, found, unknown) ==
    best_match(command, {k \in found : replaces(found, k)}, unknown)

\* parse_intent with the entities extracted before the loop, matched or not
parse_intent_extracting_first(command) ==
    parse_intent_loop(command, matching(lower(command)),
                      [intent |-> "unknown", confidence |-> 0,
                       entities |-> _extract_entities(command, "unknown")])

parse_intent(command) ==
    parse_intent_loop(command, matching(lower(command)),
                      [intent |-> "unknown", confidence |-> 0, entities |-> EmptyDict])

(***************************************************************************)
(* Planner: create_plan and optimize_plan                                  *)
(***************************************************************************)
\* A dict value is a str.  The one int of the templates (the delay of
\* shutdown) is written with a leading "#", which no command of the model
\* contains.
PyInt(n) == "#" \o ToString(n)

\* a character as repr(str) writes it between single quotes
EscapeChar(c) ==
    CASE c = "'" -> "\\'"
      [] c = "\\" -> "\\\\"
      [] c = "\n" -> "\\n"
      [] c = "\t" -> "\\t"
      [] c = "\r" -> "\\r"
      [] OTHER -> c

RECURSIVE escape(_)
\* the body of repr(str) between single quotes: every character escaped,
\* the string taken by halves
escape(s) ==
    IF Len(s) = 0 THEN ""
    ELSE IF Len(s) = 1 THEN EscapeChar(Char(s, 1))
    ELSE escape(SubSeq(s, 1, Len(s) \div 2))
             \o escape(SubSeq(s, Len(s) \div 2 + 1, Len(s)))

\* repr of a dict key or value
repr(v) ==
    IF Len(v) > 0 /\ Char(v, 1) = "#" THEN SubSeq(v, 2, Len(v))
    ELSE IF Contains(v, "'") /\ ~Contains(v, "\"") THEN "\"" \o v \o "\""
    ELSE "'" \o escape(v) \o "'"

RECURSIVE items_str(_, _)
items_str(d, i) ==
    IF i > Len(d) THEN ""
    ELSE (IF i > 1 THEN ", " ELSE "") \o repr(d[i][1]) \o ": " \o repr(d[i][2])
             \o items_str(d, i + 1)

\* str(step.params): the items in insertion order
str(d) == "{" \o items_str(d, 1) \o "}"

\* the steps create_plan builds for the intent, before the fallback
template_steps(command, intent, entities) ==
    CASE intent = "create_file" ->
           LET path == DictGet(entities, "path", "new_file.txt") IN
           <<PlanStep("file_actions", "create_file",
                      <<<<"path", path>>, <<"content", "">>>>,
                      "Create file: " \o path)>>
      [] intent = "delete_file" ->
           IF HasKey(entities, "path")
           THEN <<PlanStep("file_actions", "delete_file",
                           <<<<"path", DictGet(entities, "path", "")>>>>,
                           "Delete file: " \o DictGet(entities, "path", ""))>>
           ELSE <<>>
      [] intent = "organize_desktop" ->
           <<PlanStep("file_actions", "organize_desktop", EmptyDict,
                      "Organize desktop files into folders")>>
      [] intent = "open_app" ->
           LET app_name == DictGet(entities, "app_name", "notepad") IN
           <<PlanStep("pc_actions", "open_app", <<<<"app_name", app_name>>>>,
                      "Open application: " \o app_name)>>
      [] intent = "close_app" ->
           LET app_name == DictGet(entities, "app_name", "") IN
           IF app_name # ""
           THEN <<PlanStep("pc_actions", "close_app",
                           <<<<"process_name", app_name>>>>,
                           "Close application: " \o app_name)>>
           ELSE <<>>
      [] intent = "screenshot" ->
           <<PlanStep("pc_actions", "take_screenshot", EmptyDict, "Take screenshot")>>
      [] intent = "volume_control" ->
           LET action_type == IF Contains(lower(command), "up") THEN "up"
                              ELSE IF Contains(lower(command), "down") THEN "down"
                              ELSE "mute" IN
           <<PlanStep("pc_actions", "control_volume", <<<<"action", action_type>>>>,
                      "Volume " \o action_type)>>
      [] intent = "shutdown" ->
           <<PlanStep("pc_actions", "shutdown_system",
                      <<<<"mode", "shutdown">>, <<"delay", PyInt(60)>>>>,
                      "Shutdown system in 60 seconds")>>
      [] intent = "unlock_phone" ->
           <<PlanStep("android_bridge", "unlock_phone", EmptyDict,
                      "Unlock Android phone")>>
      [] intent = "open_android_app" ->
           LET app_name == DictGet(entities, "app_name", "whatsapp") IN
           <<PlanStep("android_bridge", "open_app", <<<<"package_name", app_name>>>>,
                      "Open " \o app_name \o " on Android")>>
      [] intent = "android_screenshot" ->
           <<PlanStep("android_bridge", "take_screenshot", EmptyDict,
                      "Take Android screenshot")>>
      [] intent = "send_whatsapp" ->
           LET contact == DictGet(entities, "contact_name", "")
               message == DictGet(entities, "message_text", "") IN
           IF contact # "" /\ message # ""
           THEN <<PlanStep("enterchat_connector", "send_whatsapp_message",
                           <<<<"contact_name", contact>>, <<"message", message>>>>,
                           "Send WhatsApp to " \o contact)>>
           ELSE <<>>
      [] intent = "send_telegram" ->
           LET chat == DictGet(entities, "contact_name", "")
               message == DictGet(entities, "message_text", "") IN
           IF chat # "" /\ message # ""
           THEN <<PlanStep("enterchat_connector", "send_telegram_message",
                           <<<<"chat_name", chat>>, <<"message", message>>>>,
                           "Send Telegram to " \o chat)>>
           ELSE <<>>
      [] intent = "check_messages" ->
           <<PlanStep("enterchat_connector", "get_unread_count", EmptyDict,
                      "Check unread messages")>>
      [] intent = "system_info" ->
           <<PlanStep("pc_actions", "get_system_info", EmptyDict,
                      "Get system information")>>
      [] intent = "morning_routine" ->
           <<PlanStep("workflow_engine", "execute_workflow",
                      <<<<"workflow_name", "morning_routine">>>>,
                      "Execute morning routine workflow")>>
      [] intent = "backup_workflow" ->
           <<PlanStep("workflow_engine", "execute_workflow",
                      <<<<"workflow_name", "backup_workflow">>>>,
                      "Execute backup workflow")>>
      [] intent = "create_app" ->
           LET app_type == IF Contains(lower(command), "calculator") THEN "calculator"
                           ELSE IF Contains(lower(command), "notes") THEN "notes"
                           ELSE "todo" IN
           <<PlanStep("app_builder", "create_app", <<<<"app_type", app_type>>>>,
                      "Create " \o app_type \o " application")>>
      [] OTHER -> <<>>

\* requires_confirmation set by the intent alone, whether a step was built or
\* not
template_confirms_by_intent(intent, entities) ==
    intent \in {"delete_file", "shutdown"}

\* requires_confirmation as create_plan sets it
template_confirms(intent, entities) ==
    \/ intent = "delete_file" /\ HasKey(entities, "path")
    \/ intent = "shutdown"

\* lines 365-372: the fallback step, when the template built no step
or_fallback(command, steps) ==
    IF steps = <<>>
    THEN <<PlanStep("unknown", "unknown", <<<<"command", command>>>>,
                    "Unknown command: " \o command)>>
    ELSE steps

\* create_plan, given what parse_intent returned
build_plan(command, r) ==
    ExecutionPlan(r.intent,
                  or_fallback(command, template_steps(command, r.intent, r.entities)),
                  r.confidence, template_confirms(r.intent, r.entities))

\* create_plan without the "if not steps" fallback
create_plan_no_fallback(command) ==
    LET r == parse_intent(command) IN
    ExecutionPlan(r.intent, template_steps(command, r.intent, r.entities),
                  r.confidence, template_confirms(r.intent, r.entities))

create_plan(command) == build_plan(command, parse_intent(command))

\* the key optimize_plan remembers a step by
step_key(step) == step.tool \o "." \o step.action \o "." \o str(step.params)

RECURSIVE optimized_steps_forgetting(_, _, _)
\* the loop of optimize_plan, a repeated step taking its key out of seen
optimized_steps_forgetting(steps, i, seen) ==
    IF i > Len(steps) THEN <<>>
    ELSE IF step_key(steps[i]) \in seen
    THEN optimized_steps_forgetting(steps, i + 1, seen \ {step_key(steps[i])})
    ELSE <<steps[i]>>
             \o optimized_steps_forgetting(steps, i + 1,
                                           seen \cup {step_key(steps[i])})

RECURSIVE optimized_steps(_, _, _)
\* the loop of optimize_plan from step i on
optimized_steps(steps, i, seen) ==
    IF i > Len(steps) THEN <<>>
    ELSE IF step_key(steps[i]) \in seen THEN optimized_steps(steps, i + 1, seen)
    ELSE <<steps[i]>> \o optimized_steps(steps, i + 1, seen \cup {step_key(steps[i])})

optimize_plan(plan) == [plan EXCEPT !.steps = optimized_steps(plan.steps, 1, {})]

(***************************************************************************)
(* Inputs of the gate's public operations                                  *)
(***************************************************************************)
\* (permission_type, action, risk_level, params) of check_permission calls:
\* the call sites of file_actions.delete_file and file_actions.create_file,
\* and a NETWORK check with params omitted
CheckCalls ==
    { <<"FILES", "delete_file", "HIGH", Given(<<<<"path", "test.txt">>>>)>>,
      <<"FILES", "create_file", "LOW", Given(<<<<"path", "new_file.txt">>>>)>>,
      <<"NETWORK", "network_request", "MEDIUM", Omitted>> }

\* PermissionUpdate bodies sent to /api/permissions/update: (permission_type,
\* enabled, ask_every_time); ask_every_time is optional and NETWORK has no
\* such setting
PermissionUpdates ==
    { <<"FILES", en, a>> : en \in BOOLEAN, a \in {Omitted, Given(TRUE), Given(FALSE)} }
    \cup { <<"NETWORK", en, Omitted>> : en \in BOOLEAN }

\* request indices: one below the range, the valid ones, one past the longest queue
Indices == (0 - 1)..MaxPending

(***************************************************************************)
(* Actions of the gate                                                     *)
(***************************************************************************)
\* no client has fetched the pending requests yet.  requests: the list the
\* last GET /api/permissions/pending returned; removed: the indices that
\* approve / deny calls have removed since
NotListed == [requests |-> Omitted, removed |-> {}]

\* no call has been received.  received: the calls in arrival order (a call
\* is known by its position); started: the calls whose handler has begun, in
\* that order; handlers: the handlers that have begun and not returned
LoopIdle == [received |-> <<>>, started |-> <<>>, handlers |-> {}]

\* no execute_plan call has been made
ExecIdle ==
    [pc |-> "idle", plan |-> [intent |-> "", steps |-> <<>>, confidence |-> 0,
                              requires_confirmation |-> FALSE],
     i |-> 0, step_results |-> <<>>, overall_success |-> TRUE, invoked |-> <<>>,
     performed |-> <<>>, checks |-> 0, command |-> Omitted]

Check(c) ==
    LET r == check_permission(c[1], c[2], c[3], c[4]) IN
    /\ Len(r.pending) <= MaxPending
    /\ Len(r.audit) <= MaxAudit
    /\ pending_requests' = r.pending
    /\ pending_file' = r.file
    /\ audit_log' = r.audit
    /\ last' = [op |-> "check", granted |-> r.granted, reason |-> r.reason]
    /\ UNCHANGED <<can, ask_every_time, tool_map, ex, usage_stats, listed, loop,
                    workflows, callers>>

Approve(i) ==
    LET r == approve_request(i) IN
    /\ Len(r.audit) <= MaxAudit
    /\ pending_requests' = r.pending
    /\ pending_file' = r.file
    /\ audit_log' = r.audit
    /\ last' = [op |-> "approve", ok |-> r.ret]
    /\ listed' = IF r.ret /\ listed.requests # Omitted
               THEN [listed EXCEPT !.removed = @ \cup {i}] ELSE listed
    /\ UNCHANGED <<can, ask_every_time, tool_map, ex, usage_stats, loop,
                    workflows, callers>>

Deny(i) ==
    LET r == deny_request(i) IN
    /\ Len(r.audit) <= MaxAudit
    /\ pending_requests' = r.pending
    /\ pending_file' = r.file
    /\ audit_log' = r.audit
    /\ last' = [op |-> "deny", ok |-> r.ret]
    /\ listed' = IF r.ret /\ listed.requests # Omitted
               THEN [listed EXCEPT !.removed = @ \cup {i}] ELSE listed
    /\ UNCHANGED <<can, ask_every_time, tool_map, ex, usage_stats, loop,
                    workflows, callers>>

\* POST /api/permissions/update
update_permission(perm_type, enabled, ask) ==
    /\ can' = [can EXCEPT ![perm_type] = enabled]
    /\ ask_every_time' =
           IF perm_type \in AskTypes /\ ask # Omitted
           THEN [ask_every_time EXCEPT ![perm_type] = ask[1]]
           ELSE ask_every_time
    /\ last' = [op |-> "update_permission"]
    /\ UNCHANGED <<pending_requests, pending_file, audit_log, tool_map, ex,
                   usage_stats, listed, loop,
                    workflows, callers>>

\* the names of the stored workflows that plans run
WorkflowNames == {"a", "b"}

\* the rows of the workflows table under those names before create_workflow
\* has stored them
StoredWorkflows == [n \in WorkflowNames |-> Omitted]

Init ==
    /\ can = [t \in PermissionType |-> FALSE]
    /\ ask_every_time = [t \in AskTypes |-> TRUE]
    /\ pending_requests = <<>>
    /\ pending_file = <<>>
    /\ audit_log = <<>>
    /\ last = [op |-> "init"]
    /\ tool_map = InitialToolMap
    /\ ex = ExecIdle
    /\ usage_stats = <<>>
    /\ listed = NotListed
    /\ loop = LoopIdle
    /\ workflows = StoredWorkflows
    /\ callers = <<>>

Next ==
    \/ \E c \in CheckCalls : Check(c)
    \/ \E i \in Indices : Approve(i)
    \/ \E i \in Indices : Deny(i)
    \/ \E u \in PermissionUpdates : update_permission(u[1], u[2], u[3])

Spec == Init /\ [][Next]_vars

(***************************************************************************)
(* Executor: execute_plan, one action per loop iteration                   *)
(***************************************************************************)
\* What _execute_step does with one step.  body_ok: whether the method's own
\* work succeeds once it is allowed to run (its try block) or fails (its
\* except block).  called: action_method was entered; ran: its work was
\* attempted; checked: it made a permission check.
\* _execute_step without the "tool is None" test: hasattr(None, action) is
\* false, so an unregistered tool is reported as a missing action
_execute_step_no_tool_check(step, body_ok) ==
    LET tool == tool_map_get(step.tool)
        untouched(result, called, ran) ==
            [result |-> result, called |-> called, ran |-> ran, checked |-> FALSE,
             pending |-> pending_requests, file |-> pending_file,
             audit |-> audit_log]
    IN
    IF tool = None \/ ~hasattr(tool, step.action) THEN
        untouched(ResultDict(FALSE, "Action not found: " \o step.action \o " in "
                                        \o step.tool), FALSE, FALSE)
    ELSE
        LET method == getattr(tool, step.action) IN
        IF ~Binds(method, step.params) THEN
            untouched(ResultDict(FALSE, "Execution error: TypeError"), FALSE, FALSE)
        ELSE IF method.kind = "helper" THEN
            untouched(ResultTuple, TRUE, TRUE)
        ELSE IF method.kind = "plain" THEN
            untouched(ResultDict(body_ok, IF body_ok THEN "ok" ELSE "error"),
                      TRUE, TRUE)
        ELSE
            LET r == check_permission(method.ptype, step.action, method.risk,
                                      Given(CheckedParams(method, step.params)))
            IN
            [result |-> IF ~r.granted THEN ResultDict(FALSE, "Permission denied")
                        ELSE ResultDict(body_ok, IF body_ok THEN "ok" ELSE "error"),
             called |-> TRUE, ran |-> r.granted, checked |-> TRUE,
             pending |-> r.pending, file |-> r.file, audit |-> r.audit]

_execute_step(step, body_ok) ==
    LET tool == tool_map_get(step.tool)
        untouched(result, called, ran) ==
            [result |-> result, called |-> called, ran |-> ran, checked |-> FALSE,
             pending |-> pending_requests, file |-> pending_file,
             audit |-> audit_log]
    IN
    IF tool = None THEN
        untouched(ResultDict(FALSE, "Tool not found: " \o step.tool), FALSE, FALSE)
    ELSE IF ~hasattr(tool, step.action) THEN
        untouched(ResultDict(FALSE, "Action not found: " \o step.action \o " in "
                                        \o step.tool), FALSE, FALSE)
    ELSE
        LET method == getattr(tool, step.action) IN
        IF ~Binds(method, step.params) THEN
            \* the call raises TypeError, caught by the except clause
            untouched(ResultDict(FALSE, "Execution error: TypeError"), FALSE, FALSE)
        ELSE IF method.kind = "helper" THEN
            untouched(ResultTuple, TRUE, TRUE)
        ELSE IF method.kind = "plain" THEN
            untouched(ResultDict(body_ok, IF body_ok THEN "ok" ELSE "error"),
                      TRUE, TRUE)
        ELSE
            LET r == check_permission(method.ptype, step.action, method.risk,
                                      Given(CheckedParams(method, step.params)))
            IN
            [result |-> IF ~r.granted THEN ResultDict(FALSE, "Permission denied")
                        ELSE ResultDict(body_ok, IF body_ok THEN "ok" ELSE "error"),
             called |-> TRUE, ran |-> r.granted, checked |-> TRUE,
             pending |-> r.pending, file |-> r.file, audit |-> r.audit]

\* the entry numbered with enumerate's 0-based index
StepResult_zero_based(i, step, result) ==
    [step_number |-> i - 1, description |-> step.description, tool |-> step.tool,
     action |-> step.action, result |-> result, success |-> get_success(result)]

\* the entry appended to step_results (duration_ms is not kept)
StepResult(i, step, result) ==
    [step_number |-> i, description |-> step.description, tool |-> step.tool,
     action |-> step.action, result |-> result, success |-> get_success(result)]

BeginExecute(plan) ==
    /\ ex.pc = "idle"
    /\ ex' = [ExecIdle EXCEPT !.pc = IF plan.steps = <<>> THEN "finishing"
                                     ELSE "running",
                              !.plan = plan, !.i = 1]
    /\ last' = [op |-> "execute_plan", state |-> "called"]
    /\ UNCHANGED <<gate_vars, tool_map, usage_stats, listed, loop,
                    workflows, callers>>

\* lines 61-102: one iteration of the loop over plan.steps
ExecuteStep ==
    /\ ex.pc = "running"
    /\ \E body_ok \in BOOLEAN :
        LET step == ex.plan.steps[ex.i]
            r == _execute_step(step, body_ok)
            traced == [ex EXCEPT
                          !.invoked = IF r.called THEN Append(@, ex.i) ELSE @,
                          !.performed = IF r.ran THEN Append(@, ex.i) ELSE @,
                          !.checks = IF r.checked THEN @ + 1 ELSE @]
        IN
        /\ pending_requests' = r.pending
        /\ pending_file' = r.file
        /\ audit_log' = r.audit
        /\ IF r.result.type # "dict" THEN
               \* result.get raises AttributeError outside any try block
               /\ ex' = [traced EXCEPT !.pc = "raised"]
               /\ last' = [op |-> "execute_plan", state |-> "raised"]
           ELSE
               LET success == get_success(r.result)
                   stop == ~success /\ _is_critical_step(step)
                   finished == stop \/ ex.i = Len(ex.plan.steps)
               IN
               /\ ex' = [traced EXCEPT
                            !.step_results = Append(@, StepResult(ex.i, step, r.result)),
                            !.overall_success = IF success THEN @ ELSE FALSE,
                            !.i = IF finished THEN @ ELSE @ + 1,
                            !.pc = IF finished THEN "finishing" ELSE "running"]
               /\ last' = last
    /\ UNCHANGED <<can, ask_every_time, tool_map, usage_stats, listed, loop,
                    workflows, callers>>

FailedCount(step_results) ==
    Cardinality({k \in 1..Len(step_results) : ~step_results[k].success})

\* ExecutionResult (total_duration_ms is not kept)
ExecutionResult(success, plan, step_results) ==
    [success |-> success, plan |-> plan, step_results |-> step_results,
     message |-> IF success
                 THEN "Successfully executed " \o ToString(Len(step_results))
                          \o " steps"
                 ELSE "Execution completed with "
                          \o ToString(FailedCount(step_results)) \o " failures"]

\* memory_agent.log_usage: one row of usage_stats
log_usage(command, agent, success, steps) ==
    Append(usage_stats, [command |-> command, agent |-> agent,
                         success |-> success, steps |-> steps])

\* lines 104-132: the summary, the usage record and the return
FinishExecute ==
    /\ ex.pc = "finishing"
    /\ ex' = [ex EXCEPT !.pc = "done"]
    /\ usage_stats' = log_usage(ex.plan.intent, "ExecutorAgent",
                                ex.overall_success, Len(ex.step_results))
    /\ last' = [op |-> "execute_plan", state |-> "returned",
                result |-> ExecutionResult(ex.overall_success, ex.plan,
                                           ex.step_results)]
    /\ UNCHANGED <<gate_vars, tool_map, listed, loop,
                    workflows, callers>>

\* dry_run: the summary it returns
dry_run(plan) ==
    [success |-> TRUE, mode |-> "dry_run", total_steps |-> Len(plan.steps),
     steps |-> [i \in 1..Len(plan.steps) |->
                   [step_number |-> i,
                    description |-> plan.steps[i].description,
                    tool |-> plan.steps[i].tool,
                    action |-> plan.steps[i].action,
                    params |-> plan.steps[i].params,
                    estimated_duration |-> "~500ms"]],
     requires_confirmation |-> plan.requires_confirmation,
     estimated_total_duration |-> "~" \o ToString(Len(plan.steps) * 500) \o "ms"]

\* a dry run that is recorded in usage_stats like an execution
DryRun_logging_usage(plan) ==
    /\ ex.pc # "running" /\ ex.pc # "finishing"
    /\ last' = [op |-> "dry_run", plan |-> plan, summary |-> dry_run(plan)]
    /\ usage_stats' = log_usage(plan.intent, "ExecutorAgent", TRUE, Len(plan.steps))
    /\ UNCHANGED <<gate_vars, tool_map, ex, listed, loop,
                    workflows, callers>>

\* POST /api/command with dry_run set (the endpoint is served one request at
\* a time, so no execute_plan call is in its loop meanwhile)
DryRun(plan) ==
    /\ ex.pc # "running" /\ ex.pc # "finishing"
    /\ last' = [op |-> "dry_run", plan |-> plan, summary |-> dry_run(plan)]
    /\ UNCHANGED <<gate_vars, tool_map, ex, usage_stats, listed, loop,
                    workflows, callers>>

set_app_builder ==
    /\ ex.pc = "idle"
    /\ tool_map["app_builder"] = None
    /\ tool_map' = [tool_map EXCEPT !["app_builder"] = "app_builder"]
    /\ last' = [op |-> "set_app_builder"]
    /\ UNCHANGED <<gate_vars, ex, usage_stats, listed, loop,
                    workflows, callers>>

\* the permission types the methods of StepPool check
ExecTypes == {"FILES"}

\* the texts posted to /api/command without dry_run
ExecCommands == {"file create \"a.txt\"", "file delete \"test.txt\"",
                 "file delete", "hello"}

\* execute_command without the test of plan.requires_confirmation: every
\* plan is handed to execute_plan
Submit_unconfirmed(command, plan) ==
    /\ ex.pc = "idle"
    /\ last' = [op |-> "execute_plan", state |-> "called"]
    /\ ex' = [ExecIdle EXCEPT !.pc = "running", !.plan = plan, !.i = 1,
                              !.command = Given(command)]
    /\ UNCHANGED <<gate_vars, tool_map, usage_stats, listed, loop,
                    workflows, callers>>

\* lines 124-144: a plan that requires confirmation is sent back unexecuted,
\* any other is handed to execute_plan.  ex.command keeps request.command.
Submit(command, plan) ==
    /\ ex.pc = "idle"
    /\ IF plan.requires_confirmation
       THEN /\ last' = [op |-> "execute_command", success |-> FALSE,
                        requires_confirmation |-> TRUE, plan |-> plan]
            /\ ex' = ex
       ELSE /\ last' = [op |-> "execute_plan", state |-> "called"]
            /\ ex' = [ExecIdle EXCEPT !.pc = "running", !.plan = plan, !.i = 1,
                                      !.command = Given(command)]
    /\ UNCHANGED <<gate_vars, tool_map, usage_stats, listed, loop,
                    workflows, callers>>

\* POST /api/command, dry_run not set (lines 105-107): the plan is built and
\* optimized
ExecuteCommand(command) == Submit(command, optimize_plan(create_plan(command)))

\* the configuration is what config.load() read from config.json; the types
\* no step of StepPool checks keep their defaults
ExecInit ==
    /\ can \in [PermissionType -> BOOLEAN]
    /\ \A t \in PermissionType \ ExecTypes : ~can[t]
    /\ ask_every_time \in [AskTypes -> BOOLEAN]
    /\ \A t \in AskTypes \ ExecTypes : ask_every_time[t]
    /\ pending_requests = <<>>
    /\ pending_file = <<>>
    /\ audit_log = <<>>
    /\ last = [op |-> "init"]
    /\ tool_map = InitialToolMap
    /\ ex = ExecIdle
    /\ usage_stats = <<>>
    /\ listed = NotListed
    /\ loop = LoopIdle
    /\ workflows = StoredWorkflows
    /\ callers = <<>>

ExecNext ==
    \/ \E plan \in Plans : BeginExecute(plan)
    \/ ExecuteStep
    \/ FinishExecute
    \/ \E plan \in DryRunPlans : DryRun(plan)
    \/ set_app_builder
    \/ \E command \in ExecCommands : ExecuteCommand(command)

ExecSpec == ExecInit /\ [][ExecNext]_vars

(***************************************************************************)
(* Planner: the commands it is given and its three public functions        *)
(***************************************************************************)
MaxWords == 3

\* the words commands are made of
Words == {"file", "delete", "\"test.txt\"", "Close", "app", "whatsapp", "send",
          "to", "shutdown", "pc"}

RECURSIVE join(_)
\* " ".join(words)
join(words) ==
    IF Len(words) = 0 THEN ""
    ELSE IF Len(words) = 1 THEN words[1]
    ELSE words[1] \o " " \o join(Tail(words))

\* commands naming Telegram
ExtraCommands == {"telegram send", "telegram send hi to Bob", "Telegram message"}

Commands == {join(words) : words \in SeqsUpTo(Words, MaxWords)} \cup ExtraCommands

ParseIntent ==
    /\ last.op = "command"
    /\ last' = [op |-> "parse_intent", command |-> last.command,
                ret |-> parse_intent(last.command)]
    /\ UNCHANGED <<gate_vars, tool_map, ex, usage_stats, listed, loop,
                    workflows, callers>>

CreatePlan ==
    /\ last.op = "command"
    /\ last' = [op |-> "create_plan", command |-> last.command,
                plan |-> create_plan(last.command)]
    /\ UNCHANGED <<gate_vars, tool_map, ex, usage_stats, listed, loop,
                    workflows, callers>>

OptimizePlan ==
    /\ last.op = "create_plan"
    /\ last' = [op |-> "optimize_plan", command |-> last.command,
                input |-> last.plan, plan |-> optimize_plan(last.plan)]
    /\ UNCHANGED <<gate_vars, tool_map, ex, usage_stats, listed, loop,
                    workflows, callers>>

PlanInit ==
    /\ can = [t \in PermissionType |-> FALSE]
    /\ ask_every_time = [t \in AskTypes |-> TRUE]
    /\ pending_requests = <<>>
    /\ pending_file = <<>>
    /\ audit_log = <<>>
    /\ last \in {[op |-> "command", command |-> c] : c \in Commands}
    /\ tool_map = InitialToolMap
    /\ ex = ExecIdle
    /\ usage_stats = <<>>
    /\ listed = NotListed
    /\ loop = LoopIdle
    /\ workflows = StoredWorkflows
    /\ callers = <<>>

PlanNext == ParseIntent \/ CreatePlan \/ OptimizePlan

PlanSpec == PlanInit /\ [][PlanNext]_vars

(***************************************************************************)
(* Clients of the pending-request endpoints                                *)
(***************************************************************************)
get_pending_requests ==
    [i \in 1..Len(pending_requests) |-> to_dict(pending_requests[i])]

\* GET /api/permissions/pending
ListPending ==
    /\ listed' = [requests |-> Given(get_pending_requests), removed |-> {}]
    /\ last' = [op |-> "get_pending_requests", success |-> TRUE,
                count |-> Len(get_pending_requests)]
    /\ UNCHANGED <<gate_vars, tool_map, ex, usage_stats, loop,
                    workflows, callers>>

\* config.json enables FILES and keeps its "ask every time" flag
StaleInit ==
    /\ can = [t \in PermissionType |-> t = "FILES"]
    /\ ask_every_time = [t \in AskTypes |-> TRUE]
    /\ pending_requests = <<>>
    /\ pending_file = <<>>
    /\ audit_log = <<>>
    /\ last = [op |-> "init"]
    /\ tool_map = InitialToolMap
    /\ ex = ExecIdle
    /\ usage_stats = <<>>
    /\ listed = NotListed
    /\ loop = LoopIdle
    /\ workflows = StoredWorkflows
    /\ callers = <<>>

StaleNext ==
    \/ \E c \in CheckCalls : Check(c)
    \/ \E i \in Indices : Approve(i)
    \/ \E i \in Indices : Deny(i)
    \/ ListPending

StaleSpec == StaleInit /\ [][StaleNext]_vars

(***************************************************************************)
(* Concurrent callers.  uvicorn runs one event loop; every endpoint is an  *)
(* "async def" whose body calls the gate without awaiting, so a handler    *)
(* that has begun runs to its return before the loop begins another.  The  *)
(* gate's methods are taken statement by statement.                        *)
(***************************************************************************)
MaxCalls == 3

\* the calls callers send: checks (made by a gated tool on behalf of
\* /api/action), approvals and denials
ConcCalls ==
    {[op |-> "check", args |-> c] : c \in CheckCalls}
    \cup {[op |-> "approve", args |-> <<i>>] : i \in 0..1}
    \cup {[op |-> "deny", args |-> <<i>>] : i \in 0..1}

\* handlers run on a thread pool (endpoints declared "def"): one may begin
\* while another is in progress
LoopFree_threadpool == TRUE

\* the event loop can begin a handler: none is in progress
LoopFree == loop.handlers = {}

NotStarted(id) ==
    /\ id \in 1..Len(loop.received)
    /\ \A k \in 1..Len(loop.started) : loop.started[k] # id

Handler(id, pc, request, status, data) ==
    [id |-> id, pc |-> pc, request |-> request, status |-> status, data |-> data]

\* a caller's request reaches the server
Receive(call) ==
    /\ Len(loop.received) < MaxCalls
    /\ loop' = [loop EXCEPT !.received = Append(@, call)]
    /\ UNCHANGED <<gate_vars, last, tool_map, ex, usage_stats, listed,
                    workflows, callers>>

\* check_permission up to its first write (lines 123-163): the disabled and
\* the granted branch log and return, the "ask every time" branch appends
\* the request to the list and goes on to _save_pending_requests
CheckBegins(id) ==
    /\ NotStarted(id) /\ LoopFree
    /\ loop.received[id].op = "check"
    /\ LET c == loop.received[id].args
           params == IF c[4] = Omitted THEN EmptyDict ELSE c[4][1]
       IN
       IF ~permission_map(c[1]) \/ ~ask_every_time_map(c[1]) THEN
           /\ audit_log' = check_permission(c[1], c[2], c[3], c[4]).audit
           /\ last' = [op |-> "check", granted |-> permission_map(c[1]),
                       reason |-> IF permission_map(c[1]) THEN None
                                  ELSE DisabledReason(c[1])]
           /\ loop' = [loop EXCEPT !.started = Append(@, id)]
           /\ UNCHANGED <<pending_requests, pending_file,
                    workflows, callers>>
       ELSE
           /\ pending_requests' =
                  Append(pending_requests, PermissionRequest(c[1], c[2], c[3], params))
           /\ loop' = [loop EXCEPT
                          !.started = Append(@, id),
                          !.handlers = @ \cup {Handler(id, "save", Omitted, "", Omitted)}]
           /\ UNCHANGED <<pending_file, audit_log, last,
                    workflows, callers>>
    /\ UNCHANGED <<can, ask_every_time, tool_map, ex, usage_stats, listed,
                    workflows, callers>>

\* approve_request / deny_request up to the pop (lines 192-193, 213-214)
ResolveBegins(id) ==
    /\ NotStarted(id) /\ LoopFree
    /\ loop.received[id].op \in {"approve", "deny"}
    /\ LET i == loop.received[id].args[1]
           status == IF loop.received[id].op = "approve" THEN "approved"
                     ELSE "denied_by_user"
       IN
       IF 0 <= i /\ i < Len(pending_requests) THEN
           /\ pending_requests' = Pop(pending_requests, i)
           /\ loop' = [loop EXCEPT
                          !.started = Append(@, id),
                          !.handlers = @ \cup {Handler(id, "save",
                                                       Given(pending_requests[i + 1]),
                                                       status, Omitted)}]
           /\ last' = last
       ELSE
           /\ loop' = [loop EXCEPT !.started = Append(@, id)]
           /\ last' = [op |-> loop.received[id].op, ok |-> FALSE]
           /\ UNCHANGED pending_requests
    /\ UNCHANGED <<can, ask_every_time, pending_file, audit_log, tool_map, ex,
                   usage_stats, listed,
                    workflows, callers>>

\* _save_pending_requests, line 111: the list is turned into dicts
SaveData(h) ==
    /\ h \in loop.handlers /\ h.pc = "save"
    /\ loop' = [loop EXCEPT !.handlers = (@ \ {h}) \cup
                    {[h EXCEPT !.pc = "write",
                               !.data = Given(_save_pending_requests(pending_requests))]}]
    /\ UNCHANGED <<gate_vars, last, tool_map, ex, usage_stats, listed,
                    workflows, callers>>

\* _save_pending_requests, line 112: the dicts are written to the file; a
\* check then returns, an approve / deny goes on to _log_audit
SaveDump(h) ==
    /\ h \in loop.handlers /\ h.pc = "write"
    /\ pending_file' = h.data[1]
    /\ IF h.request = Omitted THEN
           /\ loop' = [loop EXCEPT !.handlers = @ \ {h}]
           /\ last' = [op |-> "check", granted |-> FALSE, reason |-> ConfirmReason]
       ELSE
           /\ loop' = [loop EXCEPT !.handlers = (@ \ {h}) \cup {[h EXCEPT !.pc = "audit"]}]
           /\ last' = last
    /\ UNCHANGED <<can, ask_every_time, pending_requests, audit_log, tool_map, ex,
                   usage_stats, listed,
                    workflows, callers>>

\* approve_request / deny_request, lines 196-207 and 217-228: the audit line
\* of the popped request, then return True
LogAudit(h) ==
    /\ h \in loop.handlers /\ h.pc = "audit"
    /\ LET request == h.request[1] IN
       audit_log' = _log_audit(audit_log, request.action,
                               PermissionTypeValue(request.permission_type),
                               RiskLevelValue(request.risk_level), h.status,
                               request.params, "user")
    /\ loop' = [loop EXCEPT !.handlers = @ \ {h}]
    /\ last' = [op |-> loop.received[h.id].op, ok |-> TRUE]
    /\ UNCHANGED <<can, ask_every_time, pending_requests, pending_file, tool_map, ex,
                   usage_stats, listed,
                    workflows, callers>>

\* config.json enables FILES (asking every time) and NETWORK
ConcInit ==
    /\ can = [t \in PermissionType |-> t \in {"FILES", "NETWORK"}]
    /\ ask_every_time = [t \in AskTypes |-> TRUE]
    /\ pending_requests = <<>>
    /\ pending_file = <<>>
    /\ audit_log = <<>>
    /\ last = [op |-> "init"]
    /\ tool_map = InitialToolMap
    /\ ex = ExecIdle
    /\ usage_stats = <<>>
    /\ listed = NotListed
    /\ loop = LoopIdle
    /\ workflows = StoredWorkflows
    /\ callers = <<>>

ConcNext ==
    \/ \E call \in ConcCalls : Receive(call)
    \/ \E id \in 1..MaxCalls : CheckBegins(id)
    \/ \E id \in 1..MaxCalls : ResolveBegins(id)
    \/ \E h \in loop.handlers : SaveData(h)
    \/ \E h \in loop.handlers : SaveDump(h)
    \/ \E h \in loop.handlers : LogAudit(h)

ConcSpec == ConcInit /\ [][ConcNext]_vars

(***************************************************************************)
(* The audit endpoint, and the API as one client sees it: requests are     *)
(* served one at a time, an execute_plan call runs to its end before the   *)
(* next request is taken                                                   *)
(***************************************************************************)
\* logs[-limit:], with the start index normalised as list slicing does:
\* a negative start counts from the end, and -0 is 0
SliceFromMinus(logs, limit) ==
    LET n == Len(logs)
        start == 0 - limit
        from == IF start < 0 THEN (IF start + n < 0 THEN 0 ELSE start + n)
                ELSE IF start > n THEN n ELSE start
    IN SubSeq(logs, from + 1, n)

\* list.reverse
reverse(logs) == [i \in 1..Len(logs) |-> logs[Len(logs) + 1 - i]]

\* PermissionManager.get_audit_log; permission_type is Omitted for None
get_audit_log(limit, permission_type) ==
    LET keep(entry) == \/ permission_type = Omitted
                       \/ entry.permission_type = permission_type[1]
        logs == SelectSeq(audit_log, keep)
    IN reverse(SliceFromMinus(logs, limit))

\* the limit and permission_type query parameters of /api/permissions/audit-log
AuditLimits == (0 - 1)..(MaxAudit + 1)

AuditFilters == {Omitted, Given("files"), Given("network"), Given("android")}

\* GET /api/permissions/audit-log
GetAuditLog(limit, permission_type) ==
    LET logs == get_audit_log(limit, permission_type) IN
    /\ last' = [op |-> "get_audit_log", limit |-> limit,
                permission_type |-> permission_type, success |-> TRUE,
                count |-> Len(logs), logs |-> logs]
    /\ UNCHANGED <<gate_vars, tool_map, ex, usage_stats, listed, loop,
                    workflows, callers>>

\* GET /api/permissions/pending, as the endpoint answers it
GetPending ==
    /\ last' = [op |-> "get_pending_requests", success |-> TRUE,
                count |-> Len(get_pending_requests),
                requests |-> get_pending_requests]
    /\ UNCHANGED <<gate_vars, tool_map, ex, usage_stats, listed, loop,
                    workflows, callers>>

\* the checks made: file_actions.delete_file's and a NETWORK check
ApiCheckCalls == {c \in CheckCalls : c[2] # "create_file"}

\* the PermissionUpdate bodies sent: FILES enabled with and without "ask
\* every time", FILES disabled
ApiUpdates == { <<"FILES", TRUE, Given(TRUE)>>, <<"FILES", TRUE, Given(FALSE)>>,
                <<"FILES", FALSE, Omitted>> }

\* the audit trail read under every limit and filter
AuditNext ==
    \/ \E c \in ApiCheckCalls : Check(c)
    \/ \E i \in Indices : Approve(i)
    \/ \E i \in Indices : Deny(i)
    \/ \E u \in ApiUpdates : update_permission(u[1], u[2], u[3])
    \/ \E limit \in AuditLimits, permission_type \in AuditFilters :
           GetAuditLog(limit, permission_type)

AuditSpec == Init /\ [][AuditNext]_vars

\* the endpoints take the next request once execute_plan has returned
Quiet == ex.pc \notin {"running", "finishing"}

\* (limit, permission_type) of the audit-log requests
ApiAuditCalls == { <<1, Omitted>>, <<0, Given("files")>> }

\* the plan executed: a stored workflow whose one step creates a file
ApiPlans ==
    { ExecutionPlan("workflow_w",
                    <<PlanStep("file_actions", "create_file",
                               <<<<"path", "new_file.txt">>, <<"content", "">>>>,
                               "Create file: new_file.txt")>>,
                    100, FALSE) }

\* the plans handed to dry_run: one step, confirmation required
ApiDryRunPlans ==
    {plan \in DryRunPlans : Len(plan.steps) = 1 /\ plan.requires_confirmation}

ApiInit ==
    /\ can = [t \in PermissionType |-> FALSE]
    /\ ask_every_time = [t \in AskTypes |-> TRUE]
    /\ pending_requests = <<>>
    /\ pending_file = <<>>
    /\ audit_log = <<>>
    /\ last = [op |-> "init"]
    /\ tool_map = InitialToolMap
    /\ ex = ExecIdle
    /\ usage_stats = <<>>
    /\ listed = NotListed
    /\ loop = LoopIdle
    /\ workflows = StoredWorkflows
    /\ callers = <<>>

ApiNext ==
    \/ Quiet /\ \E c \in ApiCheckCalls : Check(c)
    \/ Quiet /\ \E i \in Indices : Approve(i)
    \/ Quiet /\ \E i \in Indices : Deny(i)
    \/ Quiet /\ \E u \in ApiUpdates : update_permission(u[1], u[2], u[3])
    \/ Quiet /\ \E call \in ApiAuditCalls : GetAuditLog(call[1], call[2])
    \/ Quiet /\ GetPending
    \/ \E plan \in ApiPlans : BeginExecute(plan)
    \/ ExecuteStep
    \/ FinishExecute
    \/ \E plan \in ApiDryRunPlans : DryRun(plan)

ApiSpec == ApiInit /\ [][ApiNext]_vars

(***************************************************************************)
(* Executor: plans that shut the system down                               *)
(***************************************************************************)
\* the planner's shutdown step
ShutdownStep ==
    PlanStep("pc_actions", "shutdown_system",
             <<<<"mode", "shutdown">>, <<"delay", PyInt(60)>>>>,
             "Shutdown system in 60 seconds")

\* the steps of the stored workflows executed: the shutdown step, a step
\* with no permission check and a file deletion
ShutdownPool ==
    { ShutdownStep,
      PlanStep("pc_actions", "get_system_info", EmptyDict, "Get system info"),
      PlanStep("file_actions", "delete_file", <<<<"path", "test.txt">>>>,
               "Delete file: test.txt") }

ShutdownPlans == {ExecutionPlan("workflow_w", steps, 100, FALSE) :
                      steps \in SeqsUpTo(ShutdownPool, MaxPlanLen) \ {<<>>}}

\* pc_actions.open_app's check, made by requests served before the plan
ShutdownCheckCalls ==
    { <<"KEYBOARD_MOUSE", "open_app", "LOW", Given(<<<<"app", "notepad">>>>)>> }

\* config.json may enable KEYBOARD_MOUSE and may clear its "ask every time"
\* flag; FILES is enabled and asks
ShutdownInit ==
    /\ can \in [PermissionType -> BOOLEAN]
    /\ can["FILES"] /\ ~can["NETWORK"]
    /\ ask_every_time \in [AskTypes -> BOOLEAN]
    /\ ask_every_time["FILES"]
    /\ pending_requests = <<>>
    /\ pending_file = <<>>
    /\ audit_log = <<>>
    /\ last = [op |-> "init"]
    /\ tool_map = InitialToolMap
    /\ ex = ExecIdle
    /\ usage_stats = <<>>
    /\ listed = NotListed
    /\ loop = LoopIdle
    /\ workflows = StoredWorkflows
    /\ callers = <<>>

ShutdownNext ==
    \/ ex.pc = "idle" /\ \E c \in ShutdownCheckCalls : Check(c)
    \/ \E plan \in ShutdownPlans : BeginExecute(plan)
    \/ ExecuteStep
    \/ FinishExecute

ShutdownSpec == ShutdownInit /\ [][ShutdownNext]_vars

(***************************************************************************)
(* Permission Gate: check                                                  *)
(***************************************************************************)
\* the arguments of a check call, params defaulted as "params or {}"
ParamsOf(c) == IF c[4] = Omitted THEN EmptyDict ELSE c[4][1]

\* log2 is log1 with exactly one line appended
OneAppended(log1, log2) ==
    /\ Len(log2) = Len(log1) + 1
    /\ \A j \in 1..Len(log1) : log2[j] = log1[j]

\* C1: a check on an enabled category whose "ask every time" flag is set
\* appends exactly one PermissionRequest carrying the category, action, risk
\* level and params at the end of the pending queue, returns (false,
\* confirmation required) and writes no audit entry.
C1_AskAppendsOnePending ==
    [][\A c \in CheckCalls :
        (last'.op = "check" /\ permission_map(c[1]) /\ ask_every_time_map(c[1])
           /\ Check(c)) =>
            /\ OneAppended(pending_requests, pending_requests')
            /\ LET req == pending_requests'[Len(pending_requests')] IN
                   /\ req.permission_type = c[1]
                   /\ req.action = c[2]
                   /\ req.risk_level = c[3]
                   /\ req.params = ParamsOf(c)
            /\ ~last'.granted /\ last'.reason = ConfirmReason
            /\ audit_log' = audit_log]_vars

C1_Witness ==
    /\ last.op = "check"
    /\ ~last.granted /\ last.reason = ConfirmReason
    /\ Len(pending_requests) = 2
    /\ pending_requests[2].action = "create_file"
    /\ can["FILES"] /\ ask_every_time["FILES"]

\* C2: a check on a disabled category returns (false, reason) and appends
\* exactly one audit entry with status denied, whatever the category's "ask
\* every time" flag; the pending queue is unchanged.
C2_DisabledDeniedAndAudited ==
    [][\A c \in CheckCalls :
        (last'.op = "check" /\ ~permission_map(c[1]) /\ Check(c)) =>
            /\ ~last'.granted
            /\ last'.reason = DisabledReason(c[1])
            /\ OneAppended(audit_log, audit_log')
            /\ LET e == audit_log'[Len(audit_log')] IN
                   /\ e.status = "denied"
                   /\ e.action = c[2]
                   /\ e.permission_type = PermissionTypeValue(c[1])
                   /\ e.risk_level = RiskLevelValue(c[3])
            /\ pending_requests' = pending_requests
            /\ pending_file' = pending_file]_vars

C2_Witness ==
    /\ last.op = "check"
    /\ ~last.granted /\ last.reason = DisabledReason("FILES")
    /\ ~can["FILES"] /\ ask_every_time["FILES"]
    /\ audit_log # <<>>
    /\ audit_log[Len(audit_log)].status = "denied"

\* C3: a check on an enabled category whose "ask every time" flag is not set
\* (NETWORK has no such flag) returns (true, null), appends exactly one audit
\* entry with status granted and leaves the pending queue unchanged.
C3_EnabledNoAskGranted ==
    [][\A c \in CheckCalls :
        (last'.op = "check" /\ permission_map(c[1])
           /\ (c[1] \notin AskTypes \/ ~ask_every_time[c[1]]) /\ Check(c)) =>
            /\ last'.granted /\ last'.reason = None
            /\ OneAppended(audit_log, audit_log')
            /\ LET e == audit_log'[Len(audit_log')] IN
                   /\ e.status = "granted"
                   /\ e.action = c[2]
                   /\ e.permission_type = PermissionTypeValue(c[1])
                   /\ e.risk_level = RiskLevelValue(c[3])
            /\ pending_requests' = pending_requests
            /\ pending_file' = pending_file]_vars

C3_Witness ==
    /\ last.op = "check"
    /\ last.granted /\ last.reason = None
    /\ can["NETWORK"]
    /\ audit_log # <<>>
    /\ audit_log[Len(audit_log)].status = "granted"
    /\ audit_log[Len(audit_log)].permission_type = "network"

(***************************************************************************)
(* Permission Gate: approve / deny                                         *)
(***************************************************************************)
ValidIndex(i) == 0 <= i /\ i < Len(pending_requests)

\* the effect of resolving the request at a valid index i with the given status
ResolvedAt(i, status) ==
    /\ last'.ok
    /\ Len(pending_requests') = Len(pending_requests) - 1
    /\ \A j \in 1..Len(pending_requests') :
           pending_requests'[j] =
               IF j <= i THEN pending_requests[j] ELSE pending_requests[j + 1]
    /\ OneAppended(audit_log, audit_log')
    /\ LET e == audit_log'[Len(audit_log')]
           removed == pending_requests[i + 1] IN
           /\ e.status = status
           /\ e.agent = "user"
           /\ e.action = removed.action
           /\ e.permission_type = PermissionTypeValue(removed.permission_type)
           /\ e.risk_level = RiskLevelValue(removed.risk_level)

\* C4: approve(i) / deny(i) on a valid index returns true, removes exactly
\* the entry at index i (the rest keep their order, later ones shift down by
\* one) and appends exactly one audit entry with status approved /
\* denied_by_user, agent "user" and the removed request's action, category
\* and risk level.
C4_ValidIndexRemovesAndAudits ==
    [][\A i \in Indices :
        /\ (last'.op = "approve" /\ ValidIndex(i) /\ Approve(i))
               => ResolvedAt(i, "approved")
        /\ (last'.op = "deny" /\ ValidIndex(i) /\ Deny(i))
               => ResolvedAt(i, "denied_by_user")]_vars

C4_Witness ==
    /\ last.op = "approve"
    /\ last.ok
    /\ Len(pending_requests) = 1
    /\ pending_requests[1].action = "create_file"
    /\ audit_log # <<>>
    /\ audit_log[Len(audit_log)].status = "approved"
    /\ audit_log[Len(audit_log)].action = "delete_file"

\* C5: approve(i) / deny(i) with i < 0 or i >= len(pending) returns false and
\* leaves the in-memory queue, the persisted queue and the audit log unchanged.
C5_InvalidIndexNoOp ==
    [][\A i \in Indices :
        (last'.op \in {"approve", "deny"} /\ ~ValidIndex(i)
           /\ (Approve(i) \/ Deny(i))) =>
            /\ ~last'.ok
            /\ UNCHANGED <<pending_requests, pending_file, audit_log,
                    workflows, callers>>]_vars

C5_Witness ==
    /\ last.op = "deny"
    /\ ~last.ok
    /\ pending_requests # <<>>

(***************************************************************************)
(* Executor                                                                *)
(***************************************************************************)
CriticalActions == {"delete_file", "delete_folder", "shutdown_system", "reboot"}

\* the call in progress has returned its ExecutionResult to the caller
Returned == last.op = "execute_plan" /\ last.state = "returned"

\* C6: if the step at position k fails and its action is delete_file,
\* delete_folder, shutdown_system or reboot, no handler of a later step is
\* invoked, step_results has exactly k entries and the result has
\* success == false.
C6_CriticalFailureAborts ==
    \A k \in 1..Len(ex.step_results) :
        (~ex.step_results[k].success
           /\ ex.plan.steps[k].action \in CriticalActions) =>
            /\ Len(ex.step_results) = k
            /\ \A j \in 1..Len(ex.invoked) : ex.invoked[j] <= k
            /\ ex.pc \in {"finishing", "done"}
            /\ ~ex.overall_success
            /\ Returned => /\ ~last.result.success
                           /\ Len(last.result.step_results) = k

C6_Witness ==
    /\ Returned
    /\ Len(ex.plan.steps) = 2
    /\ ex.plan.steps[1].action = "delete_file"
    /\ ex.plan.steps[2].action = "create_file"
    /\ Len(last.result.step_results) = 1
    /\ ~last.result.step_results[1].success
    /\ ~last.result.success
    /\ ex.invoked = <<1>>

NoCriticalStep(plan) ==
    \A k \in 1..Len(plan.steps) : plan.steps[k].action \notin CriticalActions

\* C7: for a plan of N steps none of which is in the critical-action set,
\* execute goes through all N steps and returns N step results even when a
\* step fails, with success == false whenever a step failed.
C7_NonCriticalRunsToCompletion ==
    (ex.pc \in {"done", "raised"} /\ NoCriticalStep(ex.plan)) =>
        /\ ex.pc = "done"
        /\ Len(ex.step_results) = Len(ex.plan.steps)
        /\ (\E k \in 1..Len(ex.step_results) : ~ex.step_results[k].success)
               => ~ex.overall_success

\* C8: execute never lets an error escape: whatever a dispatched handler does
\* (raise, or return something that is not a result map), the call returns an
\* ExecutionResult that records the step as failed.
C8_NoErrorEscapes ==
    /\ ex.pc # "raised"
    /\ \A j \in 1..Len(ex.invoked) :
           (ex.pc \in {"finishing", "done"} \/ ex.invoked[j] < ex.i) =>
               ex.invoked[j] <= Len(ex.step_results)

Unregistered(step) == tool_map_get(step.tool) = None

ActionMissing(step) ==
    ~Unregistered(step) /\ ~hasattr(tool_map_get(step.tool), step.action)

\* C9: a step whose tool is not registered (absent from the tool map or mapped
\* to None) or whose action the tool does not have yields a failed step
\* result "Tool not found" / "Action not found" without any handler being
\* invoked, and then follows the rule of any failed step: a critical action
\* ends the run, any other lets the next step run.
C9_NotFoundIsAFailedStep ==
    \A k \in 1..Len(ex.step_results) :
        LET step == ex.plan.steps[k]
            sr == ex.step_results[k] IN
        (Unregistered(step) \/ ActionMissing(step)) =>
            /\ ~sr.success
            /\ sr.result.message =
                   IF Unregistered(step) THEN "Tool not found: " \o step.tool
                   ELSE "Action not found: " \o step.action \o " in " \o step.tool
            /\ \A j \in 1..Len(ex.invoked) : ex.invoked[j] # k
            /\ ~ex.overall_success
            /\ IF step.action \in CriticalActions
               THEN Len(ex.step_results) = k /\ ex.pc \in {"finishing", "done"}
               ELSE k < Len(ex.plan.steps) => ex.i > k

C9_Witness ==
    /\ Returned
    /\ Len(ex.step_results) = 2
    /\ ex.plan.steps[1].tool = "app_builder"
    /\ tool_map["app_builder"] = None
    /\ ex.step_results[1].result.message = "Tool not found: app_builder"
    /\ ex.plan.steps[2].action = "delete_folder"
    /\ ex.step_results[2].result.message = "Action not found: delete_folder in pc_actions"
    /\ ex.invoked = <<>>

\* C10: dryRun(plan) changes nothing (no handler invoked, no permission
\* check, no pending request, no audit entry, no usage record) and returns
\* one summary entry per plan step, in plan order, with
\* total_steps == len(plan.steps) and the plan's requires_confirmation flag.
C10_DryRunHasNoEffect ==
    [][last'.op = "dry_run" =>
        LET plan == last'.plan
            summary == last'.summary IN
        /\ UNCHANGED <<pending_requests, pending_file, audit_log, usage_stats, ex,
                    workflows, callers>>
        /\ summary.total_steps = Len(plan.steps)
        /\ Len(summary.steps) = Len(plan.steps)
        /\ \A i \in 1..Len(plan.steps) :
               /\ summary.steps[i].step_number = i
               /\ summary.steps[i].tool = plan.steps[i].tool
               /\ summary.steps[i].action = plan.steps[i].action
               /\ summary.steps[i].params = plan.steps[i].params
               /\ summary.steps[i].description = plan.steps[i].description
        /\ summary.requires_confirmation = plan.requires_confirmation]_vars

C10_Witness ==
    /\ last.op = "dry_run"
    /\ last.plan.requires_confirmation
    /\ Len(last.plan.steps) = 2
    /\ last.plan.steps[1].tool # last.plan.steps[2].tool
    /\ last.summary.total_steps = 2
    /\ ex.pc = "done"
    /\ pending_requests # <<>>
    /\ Len(usage_stats) = 1

(***************************************************************************)
(* Executor: the usage record                                              *)
(***************************************************************************)
\* C11: every execute(plan) call that returns writes exactly one usage
\* record for that call, whether the plan succeeded, partially failed or was
\* aborted on a critical step; the record carries the command text, the
\* agent name, the overall success flag and a step count equal to the number
\* of step results.
C11_OneUsageRecordPerReturn ==
    IF Returned
    THEN /\ Len(usage_stats) = 1
         /\ ex.command # Omitted => usage_stats[1].command = ex.command[1]
         /\ usage_stats[1].agent = "ExecutorAgent"
         /\ usage_stats[1].success = last.result.success
         /\ usage_stats[1].steps = Len(last.result.step_results)
    ELSE ex.pc # "done" => usage_stats = <<>>

(***************************************************************************)
(* Permission Gate: callers that share the queue                           *)
(***************************************************************************)
\* index i named a request in the list a client fetched, and an approve or
\* deny has since removed an entry at an index <= i
Stale(i) ==
    /\ listed.requests # Omitted
    /\ 0 <= i /\ i < Len(listed.requests[1])
    /\ \E j \in listed.removed : j <= i

\* C12: an approve(i) or deny(i) issued against a stale index fails cleanly:
\* if a caller saw request R at index i in the pending list and another
\* caller's approve/deny removed an entry at an index <= i before the call
\* takes effect, the call returns false and removes or audits no request
\* other than R.
C12_StaleIndexFailsCleanly ==
    [][\A i \in Indices :
        (last'.op \in {"approve", "deny"} /\ Stale(i) /\ (Approve(i) \/ Deny(i))) =>
            /\ ~last'.ok
            /\ UNCHANGED <<pending_requests, pending_file, audit_log,
                    workflows, callers>>]_vars

\* the gate state a call leaves when it runs alone on the gate state g
ApplyCall(g, call) ==
    IF call.op = "check"
    THEN LET r == check_permission_on(g, call.args[1], call.args[2], call.args[3],
                                      call.args[4]) IN
         [pending |-> r.pending, file |-> r.file, audit |-> r.audit]
    ELSE LET r == resolve_request_on(g, call.args[1],
                                     IF call.op = "approve" THEN "approved"
                                     ELSE "denied_by_user") IN
         [pending |-> r.pending, file |-> r.file, audit |-> r.audit]

RECURSIVE RunSerially(_, _, _, _)
\* the calls run one after the other in the order given by order, from its
\* k-th on
RunSerially(calls, order, k, g) ==
    IF k > Len(calls) THEN g
    ELSE RunSerially(calls, order, k + 1, ApplyCall(g, calls[order[k]]))

Orders(n) ==
    {order \in [1..n -> 1..n] : \A a, b \in 1..n : a # b => order[a] # order[b]}

EmptyGate == [pending |-> <<>>, file |-> <<>>, audit |-> <<>>]

AllReturned ==
    /\ loop.handlers = {}
    /\ Len(loop.started) = Len(loop.received)

IsPrefix(s, t) == Len(s) <= Len(t) /\ SubSeq(t, 1, Len(s)) = s

AuditStatuses == {"granted", "denied", "approved", "denied_by_user"}

Matching(permission_type) ==
    LET kept == {k \in 1..Len(audit_log) :
                    \/ permission_type = Omitted
                    \/ audit_log[k].permission_type = permission_type[1]}
        nth[j \in 0..Cardinality(kept)] ==
            IF j = 0 THEN 0 ELSE CHOOSE k \in kept : k > nth[j - 1] /\
                                     \A k2 \in kept : k2 > nth[j - 1] => k <= k2
    IN [j \in 1..Cardinality(kept) |-> audit_log[nth[j]]]

\* C15: for every limit >= 0 and every filter, the audit-log read returns
\* exactly the min(limit, m) most recent of the m entries the filter keeps,
\* newest first (so never more than limit entries), and leaves the audit
\* log as it was.
C15_AuditReturnsMostRecent ==
    [][(last'.op = "get_audit_log" /\ last'.limit >= 0) =>
          LET matched == Matching(last'.permission_type)
              m == Len(matched)
              n == IF last'.limit < m THEN last'.limit ELSE m
          IN /\ last'.logs = [k \in 1..n |-> matched[m + 1 - k]]
             /\ Len(last'.logs) <= last'.limit
             /\ audit_log' = audit_log]_vars

\* the plan being executed has shutdown_system as its only step, and
\* KEYBOARD_MOUSE, the type shutdown_system checks, is enabled and asks
ShutdownAsked ==
    /\ ex.plan.steps = <<ShutdownStep>>
    /\ can["KEYBOARD_MOUSE"]
    /\ ask_every_time["KEYBOARD_MOUSE"]

\* C16: executing a plan whose single step is shutdown_system, with its
\* permission type enabled and "ask every time" set: the step's iteration
\* records a failed first step, never runs the shutdown and appends exactly
\* one PermissionRequest (that of shutdown_system) to the pending queue; the
\* rest of the call adds nothing, and the ExecutionResult has success false
\* and exactly one step result.
C16_ShutdownAskedIsDenied ==
    [][ShutdownAsked =>
          /\ ex.pc = "running" =>
                /\ Len(ex'.step_results) = 1
                /\ ~ex'.step_results[1].success
                /\ ex'.step_results[1].action = "shutdown_system"
                /\ ex'.step_results[1].result = ResultDict(FALSE, "Permission denied")
                /\ ex'.performed = <<>>
                /\ ex'.pc = "finishing"
                /\ pending_requests' =
                       Append(pending_requests,
                              PermissionRequest("KEYBOARD_MOUSE", "shutdown_system",
                                                "CRITICAL", <<<<"mode", "shutdown">>>>))
                /\ pending_file' = _save_pending_requests(pending_requests')
          /\ ex.pc = "finishing" =>
                /\ UNCHANGED <<pending_requests, pending_file, audit_log,
                    workflows, callers>>
                /\ Returned'
                /\ ~last'.result.success
                /\ Len(last'.result.step_results) = 1
                /\ ~last'.result.step_results[1].success
                /\ ex'.performed = <<>>]_vars

\* C16 witness: with one request already pending, the shutdown plan was
\* executed and has returned; the queue holds the older request and the
\* shutdown request
C16_Witness ==
    /\ ShutdownAsked
    /\ Returned
    /\ ~last.result.success
    /\ Len(pending_requests) = 2
    /\ pending_requests[1].action = "open_app"
    /\ pending_requests[2].action = "shutdown_system"
    /\ ex.performed = <<>>

\* step_results[j] describes plan.steps[j], for every j recorded so far
Describes(step_results, plan) ==
    /\ Len(step_results) <= Len(plan.steps)
    /\ \A j \in 1..Len(step_results) :
           /\ step_results[j].step_number = j
           /\ step_results[j].tool = plan.steps[j].tool
           /\ step_results[j].action = plan.steps[j].action
           /\ step_results[j].description = plan.steps[j].description

\* C17: execute_plan runs the steps strictly in plan order, one at a time.
\* A handler is invoked only for the step that follows the results recorded
\* so far (the handler of step i+1 after the result of step i); at every
\* point step_results[j] describes plan.steps[j] with step_number j (counted
\* from 1), so step_results is in plan order and covers a prefix of
\* plan.steps; results are only ever appended; and the ExecutionResult
\* returned carries that list.
C17_StepsInPlanOrder ==
    [][/\ ex'.invoked # ex.invoked =>
              ex'.invoked = Append(ex.invoked, Len(ex.step_results) + 1)
       /\ ex.pc = "running" => IsPrefix(ex.step_results, ex'.step_results)
       /\ Describes(ex'.step_results, ex'.plan)
       /\ Returned' => Describes(last'.result.step_results, last'.result.plan)]_vars

\* C17 witness: a two-step plan has returned, both handlers were invoked,
\* and the two results describe different steps
C17_Witness ==
    /\ Returned
    /\ ex.invoked = <<1, 2>>
    /\ Len(last.result.step_results) = 2
    /\ last.result.step_results[1].action # last.result.step_results[2].action
    /\ last.result.step_results[2].step_number = 2

\* q2 is q1 with one entry taken out, the others in their order
OneRemoved(q1, q2) == \E k \in 1..Len(q1) : q2 = Pop(q1, k - 1)

\* C18: a pending request stays in the queue until an approve or a deny
\* takes it out.  A step of approve or deny leaves the queue as it was or
\* takes out one entry and keeps the others in order; a step of any other
\* operation (check on any type, permission update, audit-log read, pending
\* read, every part of execute_plan, dry run) keeps every pending entry at
\* its place, and only a permission check (made directly or by a step of
\* execute_plan) adds one, at the end.
C18_PendingUntilResolved ==
    [][\/ /\ \E i \in Indices : Approve(i) \/ Deny(i)
          /\ pending_requests' = pending_requests
               \/ OneRemoved(pending_requests, pending_requests')
       \/ /\ IsPrefix(pending_requests, pending_requests')
          /\ Len(pending_requests') <= Len(pending_requests) + 1
          /\ pending_requests' # pending_requests =>
                 last'.op = "check" \/ ex.pc = "running"]_vars

\* C18 witness: a request made by a check is still first in the queue after
\* a refused check of another type, a permission update, an execute_plan
\* call that added a request of its own, and a dry run
C18_Witness ==
    /\ Len(pending_requests) = 2
    /\ pending_requests[1].action = "delete_file"
    /\ pending_requests[2].action = "create_file"
    /\ Len(audit_log) >= 1
    /\ audit_log[1].permission_type = "network"
    /\ ex.pc = "done"
    /\ ex.checks = 1
    /\ last.op = "dry_run"

\* no pattern of the table is found in the lowered command
NoMatch(command) ==
    LET command_lower == lower(command) IN
    \A k \in 1..Len(intent_patterns) : ~re_search(intent_patterns[k], command_lower)

\* C19: for every command that matches no pattern of the table, parse_intent
\* returns intent "unknown", confidence 0.0 and no entities, and create_plan
\* returns a plan of that intent and confidence with exactly one step, whose
\* tool is "unknown".
C19_NoMatchIsUnknown ==
    /\ (last.op = "parse_intent" /\ NoMatch(last.command)) =>
           /\ last.ret.intent = "unknown"
           /\ last.ret.confidence = 0
           /\ last.ret.entities = EmptyDict
    /\ (last.op = "create_plan" /\ NoMatch(last.command)) =>
           /\ last.plan.intent = "unknown"
           /\ last.plan.confidence = 0
           /\ Len(last.plan.steps) = 1
           /\ last.plan.steps[1].tool = "unknown"

\* C19 witness: a command with a quoted path and the words of a pattern in
\* the other order matches nothing, and its plan is the one unknown step
C19_Witness ==
    /\ last.op = "create_plan"
    /\ last.command = "delete file \"test.txt\""
    /\ NoMatch(last.command)
    /\ last.plan.intent = "unknown"
    /\ Len(last.plan.steps) = 1
    /\ last.plan.steps[1].tool = "unknown"
    /\ last.plan.steps[1].params = <<<<"command", last.command>>>>

\* the synthetic step create_plan inserts when no step was built
Fallback(command) ==
    <<PlanStep("unknown", "unknown", <<<<"command", command>>>>,
               "Unknown command: " \o command)>>

\* the command's template builds no step: the intent is unknown, or it is
\* delete_file with no path, close_app with no app name, send_whatsapp or
\* send_telegram without both a contact and a message, or any other case
\* in which the template is empty
ZeroSteps(command) ==
    LET r == parse_intent(command) IN
    \/ r.intent = "unknown"
    \/ r.intent = "delete_file" /\ ~HasKey(r.entities, "path")
    \/ r.intent = "close_app" /\ ~HasKey(r.entities, "app_name")
    \/ /\ r.intent \in {"send_whatsapp", "send_telegram"}
       /\ ~(HasKey(r.entities, "contact_name") /\ HasKey(r.entities, "message_text"))
    \/ template_steps(command, r.intent, r.entities) = <<>>

\* C20: every plan create_plan returns, and every plan optimize_plan makes of
\* it, has at least one step; when the command's template builds no step the
\* plan consists of exactly the one synthetic step with tool "unknown" and
\* action "unknown".
C20_PlanNeverEmpty ==
    last.op \in {"create_plan", "optimize_plan"} =>
        /\ Len(last.plan.steps) >= 1
        /\ ZeroSteps(last.command) =>
               /\ last.plan.steps = Fallback(last.command)
               /\ last.plan.steps[1].tool = "unknown"
               /\ last.plan.steps[1].action = "unknown"

\* C20 witness: "file delete" resolves to delete_file, carries no path, and
\* the optimized plan is the one synthetic step
C20_Witness ==
    /\ last.op = "optimize_plan"
    /\ last.command = "file delete"
    /\ last.plan.intent = "delete_file"
    /\ ~HasKey(parse_intent(last.command).entities, "path")
    /\ last.plan.steps = Fallback(last.command)

(***************************************************************************)
(* C21                                                                     *)
(***************************************************************************)
HasCriticalStep(plan) ==
    \E i \in 1..Len(plan.steps) : _is_critical_step(plan.steps[i])

\* C21: every plan create_plan returns has requires_confirmation true exactly
\* when one of its steps has an action of the executor's critical-action set
\* (delete_file, delete_folder, shutdown_system, reboot); the fallback plan
\* of a delete_file intent without a path has it false.
C21_ConfirmIffCritical ==
    last.op = "create_plan" =>
        /\ last.plan.requires_confirmation <=> HasCriticalStep(last.plan)
        /\ last.plan.steps = Fallback(last.command) =>
               ~last.plan.requires_confirmation

\* C21 witness: a delete_file plan with a path asks for confirmation
C21_Witness ==
    /\ last.op = "create_plan"
    /\ last.plan.intent = "delete_file"
    /\ Len(last.plan.steps) = 1
    /\ last.plan.steps[1].action = "delete_file"
    /\ last.plan.requires_confirmation

(***************************************************************************)
(* Planner: optimize_plan on the step lists of any plan                    *)
(***************************************************************************)
MaxOptLen == 3

\* the steps the plans are made of: create_file as the planner writes it,
\* the same call with its params written in the other order, the same params
\* under another action, and another tool
OptPool ==
    { PlanStep("file_actions", "create_file",
               <<<<"path", "new_file.txt">>, <<"content", "">>>>,
               "Create file: new_file.txt"),
      PlanStep("file_actions", "create_file",
               <<<<"content", "">>, <<"path", "new_file.txt">>>>,
               "Create file: new_file.txt"),
      PlanStep("file_actions", "write_file",
               <<<<"path", "new_file.txt">>, <<"content", "">>>>,
               "Write file: new_file.txt"),
      PlanStep("pc_actions", "take_screenshot", EmptyDict, "Take screenshot") }

OptPlans ==
    {ExecutionPlan("workflow_w", steps, 100, confirm) :
        steps \in SeqsUpTo(OptPool, MaxOptLen), confirm \in BOOLEAN}

\* plan = planner_agent.optimize_plan(plan), on the plan the last call left;
\* given is the plan before the first call
Optimize ==
    /\ last.op \in {"plan", "optimize_plan"}
    /\ last.calls < 2
    /\ last' = [op |-> "optimize_plan", calls |-> last.calls + 1,
                given |-> last.given, input |-> last.plan,
                plan |-> optimize_plan(last.plan)]
    /\ UNCHANGED <<gate_vars, tool_map, ex, usage_stats, listed, loop,
                    workflows, callers>>

OptInit ==
    /\ can = [t \in PermissionType |-> FALSE]
    /\ ask_every_time = [t \in AskTypes |-> TRUE]
    /\ pending_requests = <<>>
    /\ pending_file = <<>>
    /\ audit_log = <<>>
    /\ last \in {[op |-> "plan", calls |-> 0, given |-> plan, plan |-> plan] :
                    plan \in OptPlans}
    /\ tool_map = InitialToolMap
    /\ ex = ExecIdle
    /\ usage_stats = <<>>
    /\ listed = NotListed
    /\ loop = LoopIdle
    /\ workflows = StoredWorkflows
    /\ callers = <<>>

OptNext == Optimize

OptSpec == OptInit /\ [][OptNext]_vars

(***************************************************************************)
(* C22                                                                     *)
(***************************************************************************)
\* dict equality: the same keys with the same values, in any order
DictEq(d, e) == {d[i] : i \in 1..Len(d)} = {e[i] : i \in 1..Len(e)}

SameCall(s, t) ==
    s.tool = t.tool /\ s.action = t.action /\ DictEq(s.params, t.params)

\* the positions of the steps no earlier step equals in tool, action and
\* parameter set
FirstOccurrences(steps) ==
    {i \in 1..Len(steps) : \A j \in 1..(i - 1) : ~SameCall(steps[j], steps[i])}

\* C22: optimize_plan returns exactly the first occurrence of each distinct
\* (tool, action, parameter set), in input order; steps with equal parameter
\* maps collapse whatever order the parameters were written in.
C22_FirstOccurrencesKept ==
    last.op = "optimize_plan" =>
        last.plan.steps =
            [n \in 1..Cardinality(FirstOccurrences(last.input.steps)) |->
                last.input.steps[Nth(FirstOccurrences(last.input.steps), n)]]

(***************************************************************************)
(* C23                                                                     *)
(***************************************************************************)
\* C23: optimize_plan applied to a plan it has already optimized returns a
\* plan with the same intent, confidence, requires_confirmation and steps.
C23_OptimizeIdempotent ==
    (last.op = "optimize_plan" /\ last.calls = 2) =>
        /\ last.plan.intent = last.input.intent
        /\ last.plan.confidence = last.input.confidence
        /\ last.plan.requires_confirmation = last.input.requires_confirmation
        /\ last.plan.steps = last.input.steps

\* C23 witness: a plan of three identical steps, optimized twice, is the one
\* step the first call left
C23_Witness ==
    /\ last.op = "optimize_plan"
    /\ last.calls = 2
    /\ Len(last.given.steps) = 3
    /\ Len(last.input.steps) = 1
    /\ last.plan = last.input

(***************************************************************************)
(* C24                                                                     *)
(***************************************************************************)
\* pattern k has the highest confidence of the patterns in found and is the
\* first of the table to have it
HighestFirst(found, k) ==
    /\ k \in found
    /\ \A m \in found :
           /\ intent_patterns[m].confidence <= intent_patterns[k].confidence
           /\ intent_patterns[m].confidence = intent_patterns[k].confidence => k <= m

\* C24: parse_intent returns the intent and the confidence of the matching
\* pattern of highest confidence, the first of the table among several of
\* that confidence, and the confidence lies in [0.0, 1.0] (hundredths here).
C24_HighestConfidenceFirstWins ==
    last.op = "parse_intent" =>
        /\ last.ret.confidence \in 0..100
        /\ \A k \in matching(lower(last.command)) :
               HighestFirst(matching(lower(last.command)), k) =>
                   /\ last.ret.intent = intent_patterns[k].intent
                   /\ last.ret.confidence = intent_patterns[k].confidence

\* C24 witness: "Close whatsapp send" matches the close_app pattern (app is
\* inside whatsapp) and the send_whatsapp pattern, both of confidence 0.9,
\* and resolves to close_app, the earlier of the table
C24_Witness ==
    /\ last.op = "parse_intent"
    /\ last.command = "Close whatsapp send"
    /\ \E k, m \in matching(lower(last.command)) :
           /\ k < m
           /\ intent_patterns[k].intent = "close_app"
           /\ intent_patterns[m].intent = "send_whatsapp"
           /\ intent_patterns[k].confidence = intent_patterns[m].confidence
           /\ HighestFirst(matching(lower(last.command)), k)
    /\ last.ret.intent = "close_app"
    /\ last.ret.confidence = 90

(***************************************************************************)
(* C25                                                                     *)
(***************************************************************************)
\* C25: the command delete file "test.txt" resolves to delete_file, and its
\* plan is one step of tool file_actions and action delete_file with params
\* path test.txt, with requires_confirmation true.
C25_DeleteFileScenario ==
    /\ (last.op = "parse_intent" /\ last.command = "delete file \"test.txt\"") =>
           last.ret.intent = "delete_file"
    /\ (last.op = "create_plan" /\ last.command = "delete file \"test.txt\"") =>
           /\ last.plan.intent = "delete_file"
           /\ Len(last.plan.steps) = 1
           /\ last.plan.steps[1].tool = "file_actions"
           /\ last.plan.steps[1].action = "delete_file"
           /\ DictGet(last.plan.steps[1].params, "path", "") = "test.txt"
           /\ last.plan.requires_confirmation

(***************************************************************************)
(* C26                                                                     *)
(***************************************************************************)
\* the category is enabled and its "ask every time" flag is set
Asking(t) == can[t] /\ ask_every_time[t]

\* the step execute_plan has just run to its body, if any
NewlyPerformed ==
    IF Len(ex'.performed) > Len(ex.performed)
    THEN {ex'.plan.steps[ex'.performed[Len(ex'.performed)]]}
    ELSE {}

\* C26: while a category is enabled with "ask every time" set, every check
\* for it returns not granted and adds one pending request, whatever checks,
\* approvals and denials came before, and no handler guarded by it is run.
C26_ApprovalGrantsNothing ==
    [][\A t \in AskTypes : Asking(t) =>
           /\ \A c \in ApiCheckCalls :
                  (c[1] = t /\ last'.op = "check" /\ Check(c)) =>
                      /\ ~last'.granted
                      /\ Len(pending_requests') = Len(pending_requests) + 1
           /\ \A step \in NewlyPerformed :
                  getattr(step.tool, step.action).ptype # t]_vars

\* C26 witness: a delete_file request was approved, and the check of the
\* same action and params made after it is not granted and waits in the queue
C26_Witness ==
    /\ Asking("FILES")
    /\ last.op = "check" /\ ~last.granted
    /\ Len(audit_log) = 1
    /\ audit_log[1].status = "approved"
    /\ audit_log[1].action = "delete_file"
    /\ Len(pending_requests) = 1
    /\ pending_requests[1].action = audit_log[1].action
    /\ pending_requests[1].params = audit_log[1].details

(***************************************************************************)
(* The submission interface together with the permission endpoints        *)
(***************************************************************************)
\* POST /api/command next to the endpoints of the gate: commands are
\* submitted while requests are checked, approved, denied and listed and the
\* audit trail is read
CommandNext ==
    \/ \E command \in ExecCommands : ExecuteCommand(command)
    \/ ExecuteStep
    \/ FinishExecute
    \/ Quiet /\ \E c \in ApiCheckCalls : Check(c)
    \/ Quiet /\ \E i \in Indices : Approve(i)
    \/ Quiet /\ \E i \in Indices : Deny(i)
    \/ Quiet /\ \E u \in ApiUpdates : update_permission(u[1], u[2], u[3])
    \/ Quiet /\ \E call \in ApiAuditCalls : GetAuditLog(call[1], call[2])
    \/ Quiet /\ GetPending

CommandSpec == ApiInit /\ [][CommandNext]_vars

(***************************************************************************)
(* C27                                                                     *)
(***************************************************************************)
\* C27: no plan that requires confirmation is ever handed to execute_plan
\* by a submit, dry_run not set; the submit that is answered instead carries
\* such a plan, says success false with requires_confirmation true and
\* changes nothing: no handler, no permission check, no pending request, no
\* audit entry, no usage record; approve, deny, the pending list and the
\* audit log never start a plan.
C27_ConfirmationNeverExecutes ==
    [][/\ last'.op = "execute_command" =>
              /\ last'.plan.requires_confirmation
              /\ ~last'.success
              /\ last'.requires_confirmation
              /\ ex' = ex
              /\ UNCHANGED gate_vars
              /\ usage_stats' = usage_stats
       /\ last'.op \in {"approve", "deny", "get_pending_requests", "get_audit_log"} =>
              ex' = ex /\ usage_stats' = usage_stats
       /\ ex'.pc # "idle" => ~ex'.plan.requires_confirmation]_vars

\* C27 witness: with a request waiting in the queue, the delete_file command
\* is answered with its plan and nothing has run
C27_Witness ==
    /\ last.op = "execute_command"
    /\ ~last.success /\ last.requires_confirmation
    /\ last.plan.steps[1].action = "delete_file"
    /\ Len(pending_requests) = 1
    /\ Len(audit_log) = 1 /\ audit_log[1].status = "approved"
    /\ ex = ExecIdle
    /\ usage_stats = <<>>

(***************************************************************************)
(* Permission Gate: a restart from the persisted pending queue             *)
(***************************************************************************)
\* PermissionType(value) and RiskLevel(value): the member of that value;
\* a value of no member raises ValueError
HasMember(members, Value(_), v) == \E m \in members : Value(m) = v

Member(members, Value(_), v) == CHOOSE m \in members : Value(m) = v

\* the PermissionRequest built from one dict of the file (the timestamp is
\* not kept)
from_dict(req) ==
    [permission_type |-> Member(PermissionType, PermissionTypeValue,
                                req.permission_type),
     action |-> req.action, description |-> req.description,
     risk_level |-> Member(RiskLevel, RiskLevelValue, req.risk_level),
     params |-> req.params]

\* the members looked up by name (PermissionType[...]) where the file holds
\* values: KeyError, and the queue stays empty
_load_pending_requests_by_name(file) ==
    IF \A i \in 1..Len(file) :
           /\ file[i].permission_type \in PermissionType
           /\ file[i].risk_level \in RiskLevel
    THEN [i \in 1..Len(file) |->
             [file[i] EXCEPT !.permission_type = file[i].permission_type]]
    ELSE <<>>

\* _load_pending_requests: the queue read from the file; an exception (here
\* a value of no member) is logged and leaves the queue empty
_load_pending_requests(file) ==
    IF \A i \in 1..Len(file) :
           /\ HasMember(PermissionType, PermissionTypeValue, file[i].permission_type)
           /\ HasMember(RiskLevel, RiskLevelValue, file[i].risk_level)
    THEN [i \in 1..Len(file) |-> from_dict(file[i])]
    ELSE <<>>

\* PermissionManager(): the process is started again on the files it left
Restart ==
    /\ pending_requests' = _load_pending_requests(pending_file)
    /\ last' = [op |-> "restart"]
    /\ UNCHANGED <<can, ask_every_time, pending_file, audit_log, tool_map, ex,
                   usage_stats, listed, loop,
                    workflows, callers>>

RestartInit ==
    /\ can = [t \in PermissionType |-> TRUE]
    /\ ask_every_time \in [AskTypes -> BOOLEAN]
    /\ pending_requests = <<>>
    /\ pending_file = <<>>
    /\ audit_log = <<>>
    /\ last = [op |-> "init"]
    /\ tool_map = InitialToolMap
    /\ ex = ExecIdle
    /\ usage_stats = <<>>
    /\ listed = NotListed
    /\ loop = LoopIdle
    /\ workflows = StoredWorkflows
    /\ callers = <<>>

RestartNext ==
    \/ \E c \in CheckCalls : Check(c)
    \/ \E i \in Indices : Approve(i)
    \/ \E i \in Indices : Deny(i)
    \/ Restart

RestartSpec == RestartInit /\ [][RestartNext]_vars

(***************************************************************************)
(* C28                                                                     *)
(***************************************************************************)
\* the file holds the dicts of the requests of the queue q, in q's order
Persisted(q, file) ==
    /\ Len(file) = Len(q)
    /\ \A i \in 1..Len(q) :
           /\ file[i].permission_type = PermissionTypeValue(q[i].permission_type)
           /\ file[i].risk_level = RiskLevelValue(q[i].risk_level)
           /\ file[i].action = q[i].action
           /\ file[i].description = q[i].description
           /\ file[i].params = q[i].params

\* C28: after every check, approve or deny run one at a time the persisted
\* pending queue holds the requests of the in-memory queue in the same
\* order, and a gate restarted from the persisted data starts with exactly
\* the queue it had.
C28_PersistedQueueIsQueue ==
    [][/\ Persisted(pending_requests', pending_file')
       /\ last'.op = "restart" => pending_requests' = pending_requests]_vars

\* C28 witness: a gate restarted after an approval on a queue of two
\* different requests
C28_Witness ==
    /\ last.op = "restart"
    /\ Len(pending_requests) = 2
    /\ pending_requests[1].action # pending_requests[2].action
    /\ Len(audit_log) = 1 /\ audit_log[1].status = "approved"
    /\ Persisted(pending_requests, pending_file)

(***************************************************************************)
(* C29                                                                     *)
(***************************************************************************)
\* the entries of step_results whose step failed
FailedEntries(step_results) ==
    {k \in 1..Len(step_results) : ~step_results[k].success}

\* C29: every ExecutionResult execute_plan returns is consistent: success
\* holds exactly when step_results has one entry per plan step and every
\* entry succeeded; step_results is shorter than the plan only when its last
\* entry is a failed step with a critical action; and a result without
\* success reports in its message the number of failed entries.
C29_ResultIsConsistent ==
    Returned =>
        /\ last.result.success <=>
               /\ Len(last.result.step_results) = Len(last.result.plan.steps)
               /\ FailedEntries(last.result.step_results) = {}
        /\ Len(last.result.step_results) < Len(last.result.plan.steps) =>
               /\ Len(last.result.step_results) > 0
               /\ Len(last.result.step_results)
                      \in FailedEntries(last.result.step_results)
               /\ last.result.step_results[Len(last.result.step_results)].action
                      \in CriticalActions
        /\ ~last.result.success =>
               last.result.message =
                   "Execution completed with "
                       \o ToString(Cardinality(FailedEntries(last.result.step_results)))
                       \o " failures"

\* C29 witness: a returned result cut short by a failed critical step
C29_Witness ==
    /\ Returned
    /\ ~last.result.success
    /\ Len(last.result.plan.steps) = 2
    /\ Len(last.result.step_results) = 1
    /\ last.result.step_results[1].action = "delete_file"
    /\ last.result.message = "Execution completed with 1 failures"

\* C29 witness of the other case: every step ran and two of them failed
C29_WitnessTwoFailures ==
    /\ Returned
    /\ Len(last.result.step_results) = 2
    /\ last.result.message = "Execution completed with 2 failures"

(***************************************************************************)
(* Workflow engine: stored workflows run through execute_plan              *)
(***************************************************************************)
MaxWorkflowLen == 2

\* the execute_plan calls the interpreter's stack holds before a further
\* one raises RecursionError (sys.getrecursionlimit() frames in CPython)
RecursionLimit == 4

\* the step that runs a stored workflow
run_workflow(name) ==
    PlanStep("workflow_engine", "execute_workflow",
             <<<<"workflow_name", name>>>>, "Execute workflow " \o name)

\* the steps create_workflow is given
WorkflowStepPool ==
    { PlanStep("pc_actions", "get_system_info", EmptyDict, "Check system status") }
    \cup { run_workflow(n) : n \in WorkflowNames }

\* the plans handed to execute_plan: one step that runs a stored workflow
WorkflowPlans ==
    { ExecutionPlan("run_workflow", <<run_workflow(n)>>, 90, FALSE) :
          n \in WorkflowNames }

\* set_workflow_engine: the engine becomes the tool "workflow_engine"
set_workflow_engine ==
    /\ ex.pc = "idle"
    /\ tool_map["workflow_engine"] = None
    /\ tool_map' = [tool_map EXCEPT !["workflow_engine"] = "workflow_engine"]
    /\ last' = [op |-> "set_workflow_engine"]
    /\ UNCHANGED <<gate_vars, ex, usage_stats, listed, loop, workflows, callers>>

\* create_workflow: every step has its four keys, the workflow is saved
\* under its name (INSERT OR REPLACE) with no look at what its steps run
create_workflow(name, steps) ==
    /\ ex.pc = "idle"
    /\ workflows' = [workflows EXCEPT ![name] = Given(steps)]
    /\ last' = [op |-> "create_workflow", success |-> TRUE, workflow_name |-> name]
    /\ UNCHANGED <<gate_vars, tool_map, ex, usage_stats, listed, loop, callers>>

\* memory_agent.get_workflow, then the template file of that name
get_workflow(name) ==
    IF name \in WorkflowNames THEN workflows[name] ELSE Omitted

\* lines 85-102 of execute_plan on a frame: the entry is appended, a failure
\* clears overall_success and a failed critical step ends the loop
Recorded(frame, result) ==
    [frame EXCEPT
        !.step_results = Append(@, StepResult(frame.i, frame.plan.steps[frame.i],
                                              result)),
        !.overall_success = IF get_success(result) THEN @ ELSE FALSE,
        !.i = IF \/ ~get_success(result)
                      /\ _is_critical_step(frame.plan.steps[frame.i])
                 \/ frame.i = Len(frame.plan.steps)
              THEN @ ELSE @ + 1,
        !.pc = IF \/ ~get_success(result)
                       /\ _is_critical_step(frame.plan.steps[frame.i])
                  \/ frame.i = Len(frame.plan.steps)
               THEN "finishing" ELSE "running"]

\* the running call is at a step that reaches WorkflowEngine.execute_workflow
EntersWorkflow ==
    /\ ex.pc = "running"
    /\ ex.plan.steps[ex.i].tool = "workflow_engine"
    /\ ex.plan.steps[ex.i].action = "execute_workflow"
    /\ tool_map_get("workflow_engine") # None

\* the frame execute_workflow starts execute_plan with (lines 209-227)
WorkflowFrame(name, steps) ==
    [ExecIdle EXCEPT !.pc = IF steps = <<>> THEN "finishing" ELSE "running",
                     !.plan = ExecutionPlan("workflow_" \o name, steps, 100, FALSE),
                     !.i = 1]

\* execute_workflow called by a step: an unknown workflow is a failed step;
\* a stored one is handed to execute_plan, nested in the caller's loop; at
\* the interpreter's limit the call raises RecursionError, which the
\* except clause of _execute_step turns into a failed step
ExecuteWorkflow ==
    /\ EntersWorkflow
    /\ IF get_workflow(DictGet(ex.plan.steps[ex.i].params, "workflow_name", "")) = Omitted
       THEN /\ ex' = Recorded(ex, ResultDict(FALSE, "Workflow not found: "
                          \o DictGet(ex.plan.steps[ex.i].params, "workflow_name", "")))
            /\ callers' = callers
       ELSE IF Len(callers) + 1 >= RecursionLimit
       THEN /\ ex' = Recorded(ex, ResultDict(FALSE,
                          "Execution error: maximum recursion depth exceeded"))
            /\ callers' = callers
       ELSE /\ callers' = Append(callers, ex)
            /\ ex' = WorkflowFrame(
                         DictGet(ex.plan.steps[ex.i].params, "workflow_name", ""),
                         get_workflow(DictGet(ex.plan.steps[ex.i].params,
                                              "workflow_name", ""))[1])
    /\ UNCHANGED <<gate_vars, last, tool_map, usage_stats, listed, loop, workflows>>

\* a step of any other kind, or of a tool that is not registered
ExecuteOrdinaryStep == ~EntersWorkflow /\ ExecuteStep

\* the nested execute_plan returns (lines 104-132) and execute_workflow hands
\* its caller the dict made of the result's success and message (lines 236-243)
ReturnToWorkflow ==
    /\ ex.pc = "finishing"
    /\ callers # <<>>
    /\ usage_stats' = log_usage(ex.plan.intent, "ExecutorAgent",
                                ex.overall_success, Len(ex.step_results))
    /\ ex' = Recorded(callers[Len(callers)],
                      ResultDict(ex.overall_success,
                                 ExecutionResult(ex.overall_success, ex.plan,
                                                 ex.step_results).message))
    /\ callers' = SubSeq(callers, 1, Len(callers) - 1)
    /\ UNCHANGED <<gate_vars, last, tool_map, listed, loop, workflows>>

\* the outermost execute_plan returns
ReturnResult == callers = <<>> /\ FinishExecute

WorkflowInit ==
    /\ can = [t \in PermissionType |-> FALSE]
    /\ ask_every_time = [t \in AskTypes |-> TRUE]
    /\ pending_requests = <<>>
    /\ pending_file = <<>>
    /\ audit_log = <<>>
    /\ last = [op |-> "init"]
    /\ tool_map = InitialToolMap
    /\ ex = ExecIdle
    /\ usage_stats = <<>>
    /\ listed = NotListed
    /\ loop = LoopIdle
    /\ workflows = StoredWorkflows
    /\ callers = <<>>

WorkflowNext ==
    \/ set_workflow_engine
    \/ \E name \in WorkflowNames, steps \in SeqsUpTo(WorkflowStepPool, MaxWorkflowLen) :
           create_workflow(name, steps)
    \/ \E plan \in WorkflowPlans : BeginExecute(plan)
    \/ ExecuteWorkflow
    \/ ExecuteOrdinaryStep
    \/ ReturnToWorkflow
    \/ ReturnResult

WorkflowSpec == WorkflowInit /\ [][WorkflowNext]_vars

(***************************************************************************)
(* C30                                                                     *)
(***************************************************************************)
\* the execute_plan calls in progress, outermost first
Nesting == IF ex.pc \in {"running", "finishing"} THEN Append(callers, ex) ELSE callers

\* a call ended by the interpreter's recursion limit is on record
EndedByRecursionLimit(step_results) ==
    \E k \in 1..Len(step_results) :
        step_results[k].result.message
            = "Execution error: maximum recursion depth exceeded"

====
